---- MODULE Spec2Model ----
(***************************************************************************)
(* A model of python-executor: the job lifecycle (API handlers, job store, *)
(* execution engine, cleanup), the tar extraction path and the container   *)
(* configuration derived from a submission's metadata.                     *)
(***************************************************************************)
EXTENDS Integers, Sequences, FiniteSets, TLC

\* ------------------------------------------------------------------ bounds
NumKillers == 1
MaxTime == 1
MaxTTL == 1
MaxEntries == 2
MaxNameLen == 2
NumClients == 2
MaxFiles == 2
MaxHeaders == 3
MaxUserLen == 3
MaxDetected == 2
MaxStatements == 2
MaxStderrLines == 3
MaxSubFiles == 2
MaxPreCommands == 2
MaxScriptArgs == 2
MaxTicks == 4

\* The lifecycle is followed for one submission: handlers of different jobs share
\* nothing but the store, which keeps each record under its own id.
Jobs == {1}
Killers == 1..NumKillers

\* ------------------------------------------------------------------ state
VARIABLES
    backend,      \* "memory" | "consul": the Storage implementation main() chose
    now,          \* the clock (time.Now)
    mode,         \* per job: "none" | "sync" | "eval" | "async" (the handler that took it)
    createRes,    \* per job: what storage.Create returned: "none" | "ok" | "err"
    asyncResp,    \* per job: what ExecuteAsync has answered: "none" | "202"
    wpc,          \* per job: where its worker (handler or goroutine) stands
    present,      \* per job: the store holds a record under the job's id
    rec,          \* per job: the Execution the store holds (in memory: the shared object)
    wexec,        \* per job: the worker's own Execution value (consul: a private copy)
    ctx,          \* per job: the engine's execCtx: "live" | "deadline" | "canceled"
    container,    \* per job: "none" | "created" | "running" | "exited" | "removed"
    statusCh,     \* per job: ContainerWait delivered the exit status
    exitCode,     \* per job: Execute's exitCode, status.StatusCode once it was read
    eres,         \* per job: what Execute returned: "none" | "ok" | "timeout" | "error"
    engineKills,  \* per job: ContainerKill calls made by Execute
    apiKills,     \* per job: ContainerKill calls made through Executor.Kill
    kpc,          \* per kill request: where KillExecution stands
    ktarget,      \* per kill request: the job it names
    kexec,        \* per kill request: the Execution it got (consul: a private copy)
    kresp,        \* per kill request: the last response sent
    cpc,          \* the cleanup pass: "idle" | "loop"
    ttl,          \* cfg.Cleanup.TTL, the age runCleanup passes to Storage.Cleanup
    clist,        \* consul cleanup: ids still to delete
    lastRead,     \* per job: the status the latest successful GetExecution returned
    \* tar.ExtractToDir
    archive,      \* the entries of tarData, in order: [name, typ, content]
    tidx,         \* entries consumed by reader.Next()
    written,      \* what exists under destDir: [path, kind, content]
    tres,         \* "off" | "running" | "ok" | "unsafe" | "escape" | "io"
    \* metadata to container configuration
    djson,        \* the metadata JSON a submitter sent
    dmode,        \* cfg.Docker.NetworkMode
    dpc,          \* "off" | "json" | "parsed" | "defaulted" | "created"
    dmeta,        \* the client.Metadata the server holds
    dnet,         \* the NetworkMode of the HostConfig given to ContainerCreate
    \* the Storage interface called directly
    kv,           \* per id: 0 when the store has no record, else the caller that wrote it
    sc,           \* per caller: [pc, op, id, res] of its call on the store
    \* the validation of an /eval request
    evalReq,      \* the request body: [code, files, version], contents as lengths
    evalPc,       \* "off" | "presence" | "version" | "build" | "size" | "done"
    evalFiles,    \* ExecuteEval's files: the lengths of the contents, in order
    evalResp,     \* "none" | "400" | "413" | "accepted"
    \* client.DetectEntrypoint
    tarData,      \* the headers reader.Next() yields, in order: [name, typ]
    entrypoint,   \* what DetectEntrypoint returned: [done, name, err]
    \* buildTarFromFiles, tar.ListFiles and tar.ExtractToDir in a row
    codeFiles,    \* the files given to buildTarFromFiles, in order: [name, content]
    rtPc,         \* "off" | "build" | "buildErr" | "list" | "extract"
    listed,       \* what ListFiles returned: the names, in order
    \* imports.MergeRequirements
    detected,     \* the detected requirements, a text
    userProvided, \* the requirements the user gave, a text
    merged,       \* what MergeRequirements returned: [done, text]
    \* imports.DetectRequirements
    pyCode,       \* the source: its import statements, in order: [form, module, live]
    requirements, \* what DetectRequirements returned: [done, text]
    \* parseErrorFromStderr
    stderr,       \* the standard error output of the script, a text
    parsed,       \* what parseErrorFromStderr returned: [done, errorType, errorLine]
    \* a submission and its entrypoint
    subReq,       \* the request: [kind, entrypoint, tar, files]
    subJob,       \* what the handler made of it: [pc, entrypoint, tar]
    \* buildCommand
    cmdMeta,      \* the metadata: [pre, requirements, entrypoint, args]
    command,      \* what buildCommand returned: [done, text]
    \* Client.WaitForCompletion
    waiter,       \* the call: [pc, ticks, tickReady, polls, last, ret, status]
    waitCtx       \* its context: "live" | "done"

lifeVars == <<backend, now, mode, createRes, asyncResp, wpc, present, rec, wexec, ctx,
              container, statusCh, exitCode, eres, engineKills, apiKills, kpc, ktarget,
              kexec, kresp, cpc, ttl, clist, lastRead>>

tarVars == <<archive, tidx, written, tres>>
defVars == <<djson, dmode, dpc, dmeta, dnet>>
storeVars == <<kv, sc>>
evalVars == <<evalReq, evalPc, evalFiles, evalResp>>

detVars == <<tarData, entrypoint>>
rtVars == <<codeFiles, rtPc, listed>>
mergeVars == <<detected, userProvided, merged>>
reqVars == <<pyCode, requirements>>
errVars == <<stderr, parsed>>
entVars == <<subReq, subJob>>
cmdVars == <<cmdMeta, command>>
pollVars == <<waiter, waitCtx>>
extVars == <<entVars, cmdVars, pollVars>>
libVars == <<detVars, rtVars, mergeVars, reqVars, errVars, extVars>>

vars == <<lifeVars, tarVars, defVars, storeVars, evalVars, libVars>>

\* what no step of the job lifecycle changes
fixedVars == <<tarVars, defVars, storeVars, evalVars, libVars, backend>>

subVars == <<mode, createRes, asyncResp>>
killVars == <<kpc, ktarget, kexec, kresp>>
cleanVars == <<cpc, ttl, clist>>
engVars == <<ctx, container, statusCh, exitCode, eres, engineKills, apiKills>>

\* ------------------------------------------------------------------ records
StatusPending == "pending"
StatusRunning == "running"
StatusCompleted == "completed"
StatusFailed == "failed"
StatusKilled == "killed"

Terminal == {StatusCompleted, StatusFailed, StatusKilled}

\* storage.Execution as the submission handlers construct it
NewExecution(t) ==
    [status |-> StatusPending, error |-> "", started |-> FALSE, finished |-> FALSE,
     hasOutput |-> FALSE, exitCode |-> 0, containerID |-> "", createdAt |-> t]

\* The in-memory store keeps the pointer it was given, so a handler's Execution
\* is the stored object; the consul store serialises, so a handler has a copy.
WExec(j) == IF backend = "memory" THEN rec[j] ELSE wexec[j]
KExec(k) == IF backend = "memory" THEN rec[ktarget[k]] ELSE kexec[k]

\* an assignment to a field of the worker's Execution
WorkerAssign(j, f, v) ==
    IF backend = "memory"
    THEN /\ rec' = [rec EXCEPT ![j][f] = v]
         /\ UNCHANGED wexec
    ELSE /\ wexec' = [wexec EXCEPT ![j][f] = v]
         /\ UNCHANGED rec

\* the assignments of output.Stdout, Stderr, ExitCode and DurationMs to the
\* worker's Execution
WorkerAssignOutput(j, code) ==
    IF backend = "memory"
    THEN /\ rec' = [rec EXCEPT ![j].hasOutput = TRUE, ![j].exitCode = code]
         /\ UNCHANGED wexec
    ELSE /\ wexec' = [wexec EXCEPT ![j].hasOutput = TRUE, ![j].exitCode = code]
         /\ UNCHANGED rec

\* Storage.Update: memory fails on a missing id and otherwise stores the same
\* pointer; consul puts the serialised value unconditionally.
StoreUpdate(j, e) ==
    IF backend = "memory"
    THEN UNCHANGED <<present, rec>>
    ELSE /\ present' = [present EXCEPT ![j] = TRUE]
         /\ rec' = [rec EXCEPT ![j] = e]

\* ------------------------------------------------------------------ Init
LifeInit ==
    /\ backend \in {"memory", "consul"}
    /\ now = 0
    /\ mode = [j \in Jobs |-> "none"]
    /\ createRes = [j \in Jobs |-> "none"]
    /\ asyncResp = [j \in Jobs |-> "none"]
    /\ wpc = [j \in Jobs |-> "idle"]
    /\ present = [j \in Jobs |-> FALSE]
    /\ rec = [j \in Jobs |-> NewExecution(0)]
    /\ wexec = [j \in Jobs |-> NewExecution(0)]
    /\ ctx = [j \in Jobs |-> "live"]
    /\ container = [j \in Jobs |-> "none"]
    /\ statusCh = [j \in Jobs |-> FALSE]
    /\ exitCode = [j \in Jobs |-> 0]
    /\ eres = [j \in Jobs |-> "none"]
    /\ engineKills = [j \in Jobs |-> 0]
    /\ apiKills = [j \in Jobs |-> 0]
    /\ kpc = [k \in Killers |-> "idle"]
    /\ ktarget = [k \in Killers |-> 1]
    /\ kexec = [k \in Killers |-> NewExecution(0)]
    /\ kresp = [k \in Killers |-> "none"]
    /\ cpc = "idle"
    /\ ttl \in 0..MaxTTL
    /\ clist = {}
    /\ lastRead = [j \in Jobs |-> "none"]

\* ------------------------------------------------------------------ submission
\* a handler that goes on whatever storage.Create returned
AfterCreate_IgnoreError(m, ok) == IF m = "async" THEN "asyncGet" ELSE "setRunning"

\* if err := s.storage.Create(...); err != nil { c.JSON(500, ...); return }
AfterCreate(m, ok) ==
    IF ~ok THEN "createFailed" ELSE IF m = "async" THEN "asyncGet" ELSE "setRunning"

\* storage.Create can return an error for a fresh id: only the Consul store, whose
\* kv.Get or kv.Put may fail
CreateCanFail == backend = "consul"

\* ExecuteSync / ExecuteEval / ExecuteAsync from the new Execution up to and
\* including storage.Create and the test of its result
Submit(j, m, ok) ==
    /\ wpc[j] = "idle"
    /\ ok \/ CreateCanFail
    /\ mode' = [mode EXCEPT ![j] = m]
    /\ createRes' = [createRes EXCEPT ![j] = IF ok THEN "ok" ELSE "err"]
    /\ wexec' = [wexec EXCEPT ![j] = IF backend = "memory" THEN @ ELSE NewExecution(now)]
    /\ IF ok
       THEN /\ present' = [present EXCEPT ![j] = TRUE]
            /\ rec' = [rec EXCEPT ![j] = NewExecution(now)]
       ELSE UNCHANGED <<present, rec>>
    /\ wpc' = [wpc EXCEPT ![j] = AfterCreate(m, ok)]
    /\ UNCHANGED <<fixedVars, now, asyncResp, engVars, killVars, cleanVars, lastRead>>

\* a goroutine that runs under the context of the request that started it
AsyncWorkerCtx_Request(c) == IF c = "live" THEN "canceled" ELSE c

\* executeAsync: ctx := context.Background(); the end of the request that started
\* the goroutine leaves the context of the job as it is
AsyncWorkerCtx(c) == c

\* ExecuteAsync after go s.executeAsync(...): c.JSON(202, ...) and return, which
\* ends the context of the request
AsyncRespond(j) ==
    /\ mode[j] = "async"
    /\ createRes[j] = "ok"
    /\ asyncResp[j] = "none"
    /\ asyncResp' = [asyncResp EXCEPT ![j] = "202"]
    /\ ctx' = [ctx EXCEPT ![j] = AsyncWorkerCtx(@)]
    /\ UNCHANGED <<fixedVars, now, mode, createRes, wpc, present, rec, wexec, container,
                   statusCh, exitCode, eres, engineKills, apiKills, killVars, cleanVars,
                   lastRead>>

\* executeAsync: storage.Get, return when the record is gone
AsyncGet(j) ==
    /\ wpc[j] = "asyncGet"
    /\ IF present[j]
       THEN /\ wexec' = [wexec EXCEPT ![j] = IF backend = "memory" THEN @ ELSE rec[j]]
            /\ wpc' = [wpc EXCEPT ![j] = "setRunning"]
       ELSE /\ wpc' = [wpc EXCEPT ![j] = "done"]
            /\ UNCHANGED wexec
    /\ UNCHANGED <<fixedVars, now, subVars, present, rec, engVars, killVars, cleanVars,
                   lastRead>>

\* exec.Status = client.StatusRunning
SetRunning(j) ==
    /\ wpc[j] = "setRunning"
    /\ WorkerAssign(j, "status", StatusRunning)
    /\ wpc' = [wpc EXCEPT ![j] = "setStarted"]
    /\ UNCHANGED <<fixedVars, now, subVars, present, engVars, killVars, cleanVars, lastRead>>

\* exec.StartedAt = &now
SetStarted(j) ==
    /\ wpc[j] = "setStarted"
    /\ WorkerAssign(j, "started", TRUE)
    /\ wpc' = [wpc EXCEPT ![j] = "updRunning"]
    /\ UNCHANGED <<fixedVars, now, subVars, present, engVars, killVars, cleanVars, lastRead>>

\* s.storage.Update(ctx, exec) after the transition to running
UpdateRunning(j) ==
    /\ wpc[j] = "updRunning"
    /\ StoreUpdate(j, WExec(j))
    /\ wpc' = [wpc EXCEPT ![j] = "ensureImage"]
    /\ UNCHANGED <<fixedVars, now, subVars, wexec, engVars, killVars, cleanVars, lastRead>>

\* ------------------------------------------------------------------ engine
\* DockerExecutor.Execute, one action per container-runtime call.  A call made
\* with execCtx fails once that context is done; any call may also fail with a
\* runtime error.

\* the worker is inside Execute (execCtx exists and its deadline runs)
InExecute(j) ==
    wpc[j] \in {"ensureImage", "create", "copy", "copyFailRemove", "start", "wait",
                "logs", "deferRemove"}

\* the handler's request context is still observed (before Execute returns)
BeforeReturn(j) ==
    wpc[j] \in {"setRunning", "setStarted", "updRunning"} \/ InExecute(j)

\* a call that takes execCtx can succeed
CtxLive(j) == ctx[j] = "live"

\* return nil, fmt.Errorf(...): Execute leaves with an error
EngineFail(j, next) ==
    /\ eres' = [eres EXCEPT ![j] = "error"]
    /\ wpc' = [wpc EXCEPT ![j] = next]

\* the per-job deadline (context.WithTimeout) fires
DeadlineExpire(j) ==
    /\ InExecute(j)
    /\ ctx[j] = "live"
    /\ ctx' = [ctx EXCEPT ![j] = "deadline"]
    /\ UNCHANGED <<fixedVars, now, subVars, wpc, present, rec, wexec, container, statusCh, exitCode,
                   eres, engineKills, apiKills, killVars, cleanVars, lastRead>>

\* the HTTP request's context is cancelled (sync and eval run under it)
CallerCancel(j) ==
    /\ mode[j] \in {"sync", "eval"}
    /\ BeforeReturn(j)
    /\ ctx[j] = "live"
    /\ ctx' = [ctx EXCEPT ![j] = "canceled"]
    /\ UNCHANGED <<fixedVars, now, subVars, wpc, present, rec, wexec, container, statusCh, exitCode,
                   eres, engineKills, apiKills, killVars, cleanVars, lastRead>>

\* e.ensureImage(execCtx, image)
EnsureImage(j, ok) ==
    /\ wpc[j] = "ensureImage"
    /\ IF ok /\ CtxLive(j)
       THEN /\ wpc' = [wpc EXCEPT ![j] = "create"]
            /\ UNCHANGED eres
       ELSE EngineFail(j, "ret")
    /\ UNCHANGED <<fixedVars, now, subVars, present, rec, wexec, ctx, container, statusCh, exitCode,
                   engineKills, apiKills, killVars, cleanVars, lastRead>>

\* createContainer: e.client.ContainerCreate(ctx, ...)
CreateContainer(j, ok) ==
    /\ wpc[j] = "create"
    /\ IF ok /\ CtxLive(j)
       THEN /\ container' = [container EXCEPT ![j] = "created"]
            /\ wpc' = [wpc EXCEPT ![j] = "copy"]
            /\ UNCHANGED eres
       ELSE /\ EngineFail(j, "ret")
            /\ UNCHANGED container
    /\ UNCHANGED <<fixedVars, now, subVars, present, rec, wexec, ctx, statusCh, exitCode,
                   engineKills, apiKills, killVars, cleanVars, lastRead>>

\* createContainer: e.client.CopyToContainer(ctx, ...)
CopyToContainer(j, ok) ==
    /\ wpc[j] = "copy"
    /\ wpc' = [wpc EXCEPT ![j] = IF ok /\ CtxLive(j) THEN "start" ELSE "copyFailRemove"]
    /\ UNCHANGED <<fixedVars, now, subVars, present, rec, wexec, engVars, killVars, cleanVars,
                   lastRead>>

\* the context createContainer hands to ContainerRemove after a failed copy-in:
\* its own ctx parameter, which is Execute's execCtx
CopyFailRemoveCtxLive(j) == CtxLive(j)

\* createContainer: e.client.ContainerRemove(ctx, resp.ID, Force) and return the error
CopyFailRemove(j) ==
    /\ wpc[j] = "copyFailRemove"
    /\ container' = [container EXCEPT ![j] = IF CopyFailRemoveCtxLive(j) THEN "removed" ELSE @]
    /\ EngineFail(j, "ret")
    /\ UNCHANGED <<fixedVars, now, subVars, present, rec, wexec, ctx, statusCh, exitCode,
                   engineKills, apiKills, killVars, cleanVars, lastRead>>

\* e.client.ContainerStart(execCtx, containerID)
StartContainer(j, ok) ==
    /\ wpc[j] = "start"
    /\ IF ok /\ CtxLive(j)
       THEN /\ container' = [container EXCEPT ![j] = "running"]
            /\ wpc' = [wpc EXCEPT ![j] = "wait"]
            /\ UNCHANGED eres
       ELSE /\ EngineFail(j, "deferRemove")
            /\ UNCHANGED container
    /\ UNCHANGED <<fixedVars, now, subVars, present, rec, wexec, ctx, statusCh, exitCode,
                   engineKills, apiKills, killVars, cleanVars, lastRead>>

\* the script inside the container ends; a pending ContainerWait whose context is
\* live delivers the exit status
ContainerExit(j) ==
    /\ container[j] = "running"
    /\ container' = [container EXCEPT ![j] = "exited"]
    /\ statusCh' = [statusCh EXCEPT ![j] = @ \/ (wpc[j] = "wait" /\ CtxLive(j))]
    /\ UNCHANGED <<fixedVars, now, subVars, wpc, present, rec, wexec, ctx, exitCode, eres,
                   engineKills, apiKills, killVars, cleanVars, lastRead>>

\* select: case err := <-errCh
WaitErr(j) ==
    /\ wpc[j] = "wait"
    /\ EngineFail(j, "deferRemove")
    /\ UNCHANGED <<fixedVars, now, subVars, present, rec, wexec, ctx, container, statusCh, exitCode,
                   engineKills, apiKills, killVars, cleanVars, lastRead>>

\* the exit codes a script ends with
ExitCodes == {0, 1}

\* select: case status := <-statusCh: exitCode = status.StatusCode
WaitStatus(j) ==
    /\ wpc[j] = "wait"
    /\ statusCh[j]
    /\ \E code \in ExitCodes : exitCode' = [exitCode EXCEPT ![j] = code]
    /\ wpc' = [wpc EXCEPT ![j] = "logs"]
    /\ UNCHANGED <<fixedVars, now, subVars, present, rec, wexec, ctx, container, statusCh,
                   eres, engineKills, apiKills, killVars, cleanVars, lastRead>>

\* a select that has no case for the deadline
WaitDoneReady_NoDeadline(j) == FALSE

\* the select's third case is ready: <-execCtx.Done()
WaitDoneReady(j) == ~CtxLive(j)

\* select: case <-execCtx.Done(): ContainerKill(Background, SIGKILL), timeout error
WaitDone(j) ==
    /\ wpc[j] = "wait"
    /\ WaitDoneReady(j)
    /\ container' = [container EXCEPT ![j] = IF @ = "running" THEN "exited" ELSE @]
    /\ engineKills' = [engineKills EXCEPT ![j] = @ + 1]
    /\ eres' = [eres EXCEPT ![j] = "timeout"]
    /\ wpc' = [wpc EXCEPT ![j] = "deferRemove"]
    /\ UNCHANGED <<fixedVars, now, subVars, present, rec, wexec, ctx, statusCh, exitCode, apiKills,
                   killVars, cleanVars, lastRead>>

\* a harvest of the logs under execCtx, the context that carries the deadline
GetLogs_ExecCtx(j, ok) ==
    /\ wpc[j] = "logs"
    /\ eres' = [eres EXCEPT ![j] = IF ok /\ CtxLive(j) THEN "ok" ELSE "error"]
    /\ wpc' = [wpc EXCEPT ![j] = "deferRemove"]
    /\ UNCHANGED <<fixedVars, now, subVars, present, rec, wexec, ctx, container, statusCh, exitCode,
                   engineKills, apiKills, killVars, cleanVars, lastRead>>

\* e.getLogs(context.Background(), containerID), then the ExecutionOutput
GetLogs(j, ok) ==
    /\ wpc[j] = "logs"
    /\ eres' = [eres EXCEPT ![j] = IF ok THEN "ok" ELSE "error"]
    /\ wpc' = [wpc EXCEPT ![j] = "deferRemove"]
    /\ UNCHANGED <<fixedVars, now, subVars, present, rec, wexec, ctx, container, statusCh, exitCode,
                   engineKills, apiKills, killVars, cleanVars, lastRead>>

\* defer e.client.ContainerRemove(context.Background(), containerID, Force)
DeferRemove(j) ==
    /\ wpc[j] = "deferRemove"
    /\ container' = [container EXCEPT ![j] = "removed"]
    /\ wpc' = [wpc EXCEPT ![j] = "ret"]
    /\ UNCHANGED <<fixedVars, now, subVars, present, rec, wexec, ctx, statusCh, exitCode, eres,
                   engineKills, apiKills, killVars, cleanVars, lastRead>>

\* ------------------------------------------------------------------ terminal update
\* exec.FinishedAt = &finishedAt
SetFinished(j) ==
    /\ wpc[j] = "ret"
    /\ WorkerAssign(j, "finished", TRUE)
    /\ wpc' = [wpc EXCEPT ![j] = "setStatus"]
    /\ UNCHANGED <<fixedVars, now, subVars, present, engVars, killVars, cleanVars, lastRead>>

\* the status the worker assigns once Execute has returned, given the status its
\* Execution holds: failed on an engine error, completed otherwise
WorkerTerminalStatus(held, result) ==
    IF result = "ok" THEN StatusCompleted ELSE StatusFailed

\* exec.Status = client.StatusFailed / client.StatusCompleted
SetTerminalStatus(j) ==
    /\ wpc[j] = "setStatus"
    /\ WorkerAssign(j, "status", WorkerTerminalStatus(WExec(j).status, eres[j]))
    /\ wpc' = [wpc EXCEPT ![j] = "setFields"]
    /\ UNCHANGED <<fixedVars, now, subVars, present, engVars, killVars, cleanVars, lastRead>>

\* an engine error whose text is empty
ErrorText_Empty(result) == ""

\* err.Error() as the record keeps it
ErrorText(result) == IF result = "timeout" THEN "timeout" ELSE "engine"

\* exec.Error = err.Error(), or exec.Stdout, Stderr, ExitCode, DurationMs = output....
SetTerminalFields(j) ==
    /\ wpc[j] = "setFields"
    /\ IF eres[j] = "ok"
       THEN WorkerAssignOutput(j, exitCode[j])
       ELSE WorkerAssign(j, "error", ErrorText(eres[j]))
    /\ wpc' = [wpc EXCEPT ![j] = "updTerminal"]
    /\ UNCHANGED <<fixedVars, now, subVars, present, engVars, killVars, cleanVars, lastRead>>

\* s.storage.Update(ctx, exec) with the result; the sync handlers then respond
UpdateTerminal(j) ==
    /\ wpc[j] = "updTerminal"
    /\ StoreUpdate(j, WExec(j))
    /\ wpc' = [wpc EXCEPT ![j] = "done"]
    /\ UNCHANGED <<fixedVars, now, subVars, wexec, engVars, killVars, cleanVars, lastRead>>

\* the error of the worker's Storage.Update: not found from the in-memory store
\* when the id is gone (the KV store's Put succeeds)
UpdateFails(j) == backend = "memory" /\ ~present[j]

\* c.JSON(http.StatusOK, exec.ToExecutionResult()): the last statement of
\* ExecuteSync and of ExecuteEval
SyncResponse(j) ==
    IF mode[j] \in {"sync", "eval"} /\ wpc[j] = "done" THEN "200" ELSE "none"

\* ------------------------------------------------------------------ GetExecution
\* GetExecution: storage.Get and the status of the result it sends (404: nothing read)
GetExecution(j) ==
    /\ present[j]
    /\ lastRead' = [lastRead EXCEPT ![j] = rec[j].status]
    /\ UNCHANGED <<fixedVars, now, subVars, wpc, present, rec, wexec, engVars, killVars,
                   cleanVars>>

\* ------------------------------------------------------------------ KillExecution
\* a kill that is also accepted for a job that has not started
KillAllowed_Pending(st) == st \in {StatusPending, StatusRunning}

\* a kill that is refused only for a job already killed
KillAllowed_NotKilled(st) == st # StatusKilled

\* "Only kill if running": the status test that lets a kill request proceed
KillAllowed(st) == st = StatusRunning

\* KillExecution: storage.Get, 404 when missing, the current status when not running
KillGet(k, j) ==
    /\ kpc[k] = "idle"
    /\ ktarget' = [ktarget EXCEPT ![k] = j]
    /\ IF ~present[j]
       THEN /\ kresp' = [kresp EXCEPT ![k] = "404"]
            /\ kpc' = [kpc EXCEPT ![k] = "idle"]
            /\ UNCHANGED kexec
       ELSE IF ~KillAllowed(rec[j].status)
            THEN /\ kresp' = [kresp EXCEPT ![k] = rec[j].status]
                 /\ kpc' = [kpc EXCEPT ![k] = "idle"]
                 /\ UNCHANGED kexec
            ELSE /\ kresp' = [kresp EXCEPT ![k] = "none"]
                 /\ kpc' = [kpc EXCEPT ![k] = "killContainer"]
                 /\ kexec' = [kexec EXCEPT ![k] = IF backend = "memory" THEN @ ELSE rec[j]]
    /\ UNCHANGED <<fixedVars, now, subVars, wpc, present, rec, wexec, engVars, cleanVars,
                   lastRead>>

\* if exec.ContainerID != "" { s.executor.Kill(...) }: 500 when the kill fails
KillContainer(k, ok) ==
    /\ kpc[k] = "killContainer"
    /\ IF KExec(k).containerID # ""
       THEN IF ok
            THEN /\ apiKills' = [apiKills EXCEPT ![ktarget[k]] = @ + 1]
                 /\ container' = [container EXCEPT ![ktarget[k]] =
                                     IF @ = "running" THEN "exited" ELSE @]
                 /\ kpc' = [kpc EXCEPT ![k] = "setKilled"]
                 /\ UNCHANGED kresp
            ELSE /\ kresp' = [kresp EXCEPT ![k] = "500"]
                 /\ kpc' = [kpc EXCEPT ![k] = "idle"]
                 /\ UNCHANGED <<apiKills, container>>
       ELSE /\ kpc' = [kpc EXCEPT ![k] = "setKilled"]
            /\ UNCHANGED <<apiKills, container, kresp>>
    /\ UNCHANGED <<fixedVars, now, subVars, wpc, present, rec, wexec, ctx, statusCh, exitCode, eres,
                   engineKills, ktarget, kexec, cleanVars, lastRead>>

\* exec.Status = client.StatusKilled
KillSetStatus(k) ==
    /\ kpc[k] = "setKilled"
    /\ IF backend = "memory"
       THEN /\ rec' = [rec EXCEPT ![ktarget[k]].status = StatusKilled]
            /\ UNCHANGED kexec
       ELSE /\ kexec' = [kexec EXCEPT ![k].status = StatusKilled]
            /\ UNCHANGED rec
    /\ kpc' = [kpc EXCEPT ![k] = "update"]
    /\ UNCHANGED <<fixedVars, now, subVars, wpc, present, wexec, engVars, ktarget, kresp,
                   cleanVars, lastRead>>

\* s.storage.Update(ctx, exec); respond {status: "killed"}
KillUpdate(k) ==
    /\ kpc[k] = "update"
    /\ StoreUpdate(ktarget[k], KExec(k))
    /\ kresp' = [kresp EXCEPT ![k] = StatusKilled]
    /\ kpc' = [kpc EXCEPT ![k] = "idle"]
    /\ UNCHANGED <<fixedVars, now, subVars, wpc, wexec, engVars, ktarget, kexec, cleanVars,
                   lastRead>>

\* ------------------------------------------------------------------ Cleanup
\* a cleanup that looks at the age alone
CleanupEligible_AnyStatus(e, c) == e.createdAt < c

\* "Only cleanup completed/failed/killed executions" older than the cutoff
CleanupEligible(e, c) ==
    /\ e.status = StatusCompleted \/ e.status = StatusFailed \/ e.status = StatusKilled
    /\ e.createdAt < c

\* a cutoff that leaves the age out
Cutoff_NoAge(olderThan) == now

\* cutoff := time.Now().Add(-olderThan)
Cutoff(olderThan) == now - olderThan

\* MemoryStorage.Cleanup: what the loop leaves in the map
MemoryCleanupKeeps(j) == present[j] /\ ~CleanupEligible(rec[j], Cutoff(ttl))

\* MemoryStorage.Cleanup: one pass under the store's lock
CleanupMemory ==
    /\ backend = "memory"
    /\ present' = [j \in Jobs |-> MemoryCleanupKeeps(j)]
    /\ UNCHANGED <<fixedVars, now, subVars, wpc, rec, wexec, engVars, killVars, cleanVars,
                   lastRead>>

\* ConsulStorage.Cleanup: the cutoff, c.List, and the records the loop will delete
CleanupList ==
    /\ backend = "consul"
    /\ cpc = "idle"
    /\ clist' = {j \in Jobs : present[j] /\ CleanupEligible(rec[j], Cutoff(ttl))}
    /\ cpc' = IF clist' = {} THEN "idle" ELSE "loop"
    /\ UNCHANGED <<fixedVars, now, subVars, wpc, present, rec, wexec, engVars, killVars, ttl,
                   lastRead>>

\* ConsulStorage.Cleanup: c.Delete(ctx, exec.ID) for the next listed record
CleanupDelete ==
    /\ cpc = "loop"
    /\ LET j == CHOOSE i \in clist : \A o \in clist : i <= o
       IN /\ present' = [present EXCEPT ![j] = FALSE]
          /\ clist' = clist \ {j}
          /\ cpc' = IF clist \ {j} = {} THEN "idle" ELSE "loop"
    /\ UNCHANGED <<fixedVars, now, subVars, wpc, rec, wexec, engVars, killVars, ttl,
                   lastRead>>

\* ------------------------------------------------------------------ time
Tick ==
    /\ now < MaxTime
    /\ now' = now + 1
    /\ UNCHANGED <<fixedVars, subVars, wpc, present, rec, wexec, engVars, killVars, cleanVars,
                   lastRead>>


\* ------------------------------------------------------------------ tar.ExtractToDir
\* A path is a sequence of characters; a cleaned path is a sequence of segments.
Chars == {"a", ".", "/"}
Names == UNION {[1..n -> Chars] : n \in 0..MaxNameLen}
Typeflags == {"reg", "dir", "sym"}
\* ExtractToDir copies the content of an entry and never looks at it
Entries == [name : Names, typ : Typeflags, content : {""}]

\* destDir, an absolute clean directory of one segment
DestDir == << <<"d">> >>

\* strings.Contains(path, "..")
ContainsDotDot(path) ==
    \E i \in 1..(Len(path) - 1) : path[i] = "." /\ path[i + 1] = "."

\* strings.HasPrefix(path, "/"), which on this platform is also filepath.IsAbs
StartsWithSlash(path) == Len(path) > 0 /\ path[1] = "/"

\* validatePath: TRUE when it returns nil
validatePath(path) ==
    /\ ~ContainsDotDot(path)
    /\ ~StartsWithSlash(path)

\* strings.Split(path, "/") as filepath.Clean walks it
RECURSIVE SplitSlash(_, _, _)
SplitSlash(path, i, cur) ==
    IF i > Len(path) THEN <<cur>>
    ELSE IF path[i] = "/" THEN <<cur>> \o SplitSlash(path, i + 1, <<>>)
    ELSE SplitSlash(path, i + 1, Append(cur, path[i]))

\* filepath.Clean of a rooted path given as segments: drop "" and ".", ".." pops
RECURSIVE CleanSegs(_, _)
CleanSegs(segs, acc) ==
    IF segs = <<>> THEN acc
    ELSE LET h == Head(segs)
         IN IF h = <<>> \/ h = <<".">> THEN CleanSegs(Tail(segs), acc)
            ELSE IF h = <<".", ".">>
                 THEN CleanSegs(Tail(segs),
                                IF acc = <<>> THEN acc ELSE SubSeq(acc, 1, Len(acc) - 1))
                 ELSE CleanSegs(Tail(segs), Append(acc, h))

\* filepath.Clean(filepath.Join(destDir, name))
TargetPath(name) == CleanSegs(DestDir \o SplitSlash(name, 1, <<>>), <<>>)

\* an extraction without the second check of the joined path
InsideDest_Any(target) == TRUE

\* strings.HasPrefix(filepath.Clean(targetPath), filepath.Clean(destDir)+"/")
InsideDest(target) ==
    /\ Len(target) > Len(DestDir)
    /\ SubSeq(target, 1, Len(DestDir)) = DestDir

\* the directories os.MkdirAll(p) has to find or make below destDir, outermost first
DirChain(p) == [i \in 1..(Len(p) - Len(DestDir)) |-> SubSeq(p, 1, Len(DestDir) + i)]

IsFile(fs, p) == \E w \in fs : w.path = p /\ w.kind = "file"
IsDir(fs, p) == \E w \in fs : w.path = p /\ w.kind = "dir"

\* os.MkdirAll(p): fails at the first component that is a file, having made the
\* directories before it
MkdirAllOk(fs, p) == \A i \in 1..Len(DirChain(p)) : ~IsFile(fs, DirChain(p)[i])
MkdirAllMade(fs, p) ==
    {[path |-> DirChain(p)[i], kind |-> "dir", content |-> ""] :
        i \in {n \in 1..Len(DirChain(p)) : \A m \in 1..n : ~IsFile(fs, DirChain(p)[m])}}

\* filepath.Dir of a cleaned path
ParentDir(p) == SubSeq(p, 1, Len(p) - 1)

\* the return of ExtractToDir
TarReturn(res) ==
    /\ tres' = res
    /\ UNCHANGED <<archive, tidx>>

\* ExtractToDir: reader.Next() returns io.EOF
ExtractEOF ==
    /\ tres = "running"
    /\ tidx = Len(archive)
    /\ TarReturn("ok")
    /\ UNCHANGED <<lifeVars, libVars, defVars, storeVars, evalVars, written>>

\* ExtractToDir: one iteration of the loop over the headers
ExtractEntry ==
    /\ tres = "running"
    /\ tidx < Len(archive)
    /\ LET header == archive[tidx + 1]
           target == TargetPath(header.name)
       IN IF ~validatePath(header.name)
          THEN TarReturn("unsafe") /\ UNCHANGED written
          ELSE IF ~InsideDest(target)
          THEN TarReturn("escape") /\ UNCHANGED written
          ELSE IF header.typ = "dir"
          THEN /\ written' = written \cup MkdirAllMade(written, target)
               /\ IF MkdirAllOk(written, target)
                  THEN tidx' = tidx + 1 /\ UNCHANGED <<archive, tres>>
                  ELSE TarReturn("io")
          ELSE IF header.typ = "reg"
          THEN IF ~MkdirAllOk(written, ParentDir(target))
               THEN /\ written' = written \cup MkdirAllMade(written, ParentDir(target))
                    /\ TarReturn("io")
               ELSE IF IsDir(written, target)
               THEN /\ written' = written \cup MkdirAllMade(written, ParentDir(target))
                    /\ TarReturn("io")
               ELSE /\ written' = {w \in written : w.path # target}
                                  \cup MkdirAllMade(written, ParentDir(target))
                                  \cup {[path |-> target, kind |-> "file",
                                          content |-> header.content]}
                    /\ tidx' = tidx + 1
                    /\ UNCHANGED <<archive, tres>>
          ELSE /\ tidx' = tidx + 1
               /\ UNCHANGED <<archive, tres, written>>
    /\ UNCHANGED <<lifeVars, libVars, defVars, storeVars, evalVars>>

TarInit ==
    /\ \E n \in 0..MaxEntries : archive \in [1..n -> Entries]
    /\ tidx = 0
    /\ written = {}
    /\ tres = "running"

TarOff ==
    /\ archive = <<>>
    /\ tidx = 0
    /\ written = {}
    /\ tres = "off"

TarNext == ExtractEntry \/ ExtractEOF

\* ------------------------------------------------------------------ metadata to container
\* config.Load: the defaults of the execution parameters
DefaultTimeout == 300
DefaultMemoryMB == 1024
DefaultDiskMB == 2048
DefaultCPUShares == 1024
DefaultImage == "python:3.12-slim"

\* The metadata JSON of a submission.  It may leave config out, and a config may
\* leave any field out; an integer field left out is read as 0.
JsonInts == {-1, 0, 1}
JsonImages == {"", "custom"}
JsonMetadata ==
    [hasConfig : {TRUE}, net : {"omitted", "true", "false"}, timeout : JsonInts,
     memory : JsonInts, disk : {0, 1}, cpu : {0, 1}, image : JsonImages]
    \cup
    [hasConfig : {FALSE}, net : {"omitted"}, timeout : {0}, memory : {0}, disk : {0},
     cpu : {0}, image : JsonImages]

ZeroMetadata ==
    [hasConfig |-> FALSE, networkDisabled |-> FALSE, timeout |-> 0, memory |-> 0,
     disk |-> 0, cpu |-> 0, image |-> ""]

\* json.Unmarshal into client.Metadata: Config stays nil without a config object,
\* and NetworkDisabled is false unless the field is there and true
UnmarshalMetadata(js) ==
    [hasConfig |-> js.hasConfig,
     networkDisabled |-> (js.hasConfig /\ js.net = "true"),
     timeout |-> js.timeout, memory |-> js.memory, disk |-> js.disk, cpu |-> js.cpu,
     image |-> js.image]

\* a defaulting that also switches the network off when no config was sent
applyDefaults_DisableNetwork(meta) ==
    [hasConfig |-> TRUE,
     networkDisabled |-> (meta.networkDisabled \/ ~meta.hasConfig),
     timeout |-> IF meta.timeout = 0 THEN DefaultTimeout ELSE meta.timeout,
     memory |-> IF meta.memory = 0 THEN DefaultMemoryMB ELSE meta.memory,
     disk |-> IF meta.disk = 0 THEN DefaultDiskMB ELSE meta.disk,
     cpu |-> IF meta.cpu = 0 THEN DefaultCPUShares ELSE meta.cpu,
     image |-> IF meta.image = "" THEN DefaultImage ELSE meta.image]

\* applyDefaults
applyDefaults(meta) ==
    [hasConfig |-> TRUE,
     networkDisabled |-> meta.networkDisabled,
     timeout |-> IF meta.timeout = 0 THEN DefaultTimeout ELSE meta.timeout,
     memory |-> IF meta.memory = 0 THEN DefaultMemoryMB ELSE meta.memory,
     disk |-> IF meta.disk = 0 THEN DefaultDiskMB ELSE meta.disk,
     cpu |-> IF meta.cpu = 0 THEN DefaultCPUShares ELSE meta.cpu,
     image |-> IF meta.image = "" THEN DefaultImage ELSE meta.image]

\* createContainer: networkMode
NetworkMode(meta, configured) ==
    IF ~meta.networkDisabled THEN configured ELSE "none"

\* parseRequest / ShouldBindJSON
ParseMetadata ==
    /\ dpc = "json"
    /\ dmeta' = UnmarshalMetadata(djson)
    /\ dpc' = "parsed"
    /\ UNCHANGED <<lifeVars, libVars, tarVars, storeVars, evalVars, djson, dmode, dnet>>

\* Execute: meta := applyDefaults(req.Metadata, e.config)
ApplyDefaults ==
    /\ dpc = "parsed"
    /\ dmeta' = applyDefaults(dmeta)
    /\ dpc' = "defaulted"
    /\ UNCHANGED <<lifeVars, libVars, tarVars, storeVars, evalVars, djson, dmode, dnet>>

\* createContainer: the HostConfig handed to ContainerCreate
ConfigureContainer ==
    /\ dpc = "defaulted"
    /\ dnet' = NetworkMode(dmeta, dmode)
    /\ dpc' = "created"
    /\ UNCHANGED <<lifeVars, libVars, tarVars, storeVars, evalVars, djson, dmode, dmeta>>

DefInit ==
    /\ djson \in JsonMetadata
    /\ dmode \in {"host", "bridge"}
    /\ dpc = "json"
    /\ dmeta = ZeroMetadata
    /\ dnet = ""

DefOff ==
    /\ djson = [hasConfig |-> FALSE, net |-> "omitted", timeout |-> 0, memory |-> 0,
                disk |-> 0, cpu |-> 0, image |-> ""]
    /\ dmode = "host"
    /\ dpc = "off"
    /\ dmeta = ZeroMetadata
    /\ dnet = ""

DefNext == ParseMetadata \/ ApplyDefaults \/ ConfigureContainer

\* ------------------------------------------------------------------ Storage
\* Callers of the Storage interface on ids of their choosing.  A record is known
\* by the caller that wrote it.
Clients == 1..NumClients
StoreIds == {1, 2}

IdleCall == [pc |-> "idle", op |-> "none", id |-> 1, res |-> "none"]

\* a call on the store returns res
StoreReturn(c, op, id, res) ==
    sc' = [sc EXCEPT ![c] = [pc |-> "idle", op |-> op, id |-> id, res |-> res]]

\* MemoryStorage.Create: under the mutex, the test for the id and the insertion
MemoryCreate(c, id) ==
    /\ backend = "memory"
    /\ sc[c].pc = "idle"
    /\ IF kv[id] # 0
       THEN StoreReturn(c, "create", id, "exists") /\ UNCHANGED kv
       ELSE /\ kv' = [kv EXCEPT ![id] = c]
            /\ StoreReturn(c, "create", id, "ok")
    /\ UNCHANGED <<lifeVars, libVars, tarVars, defVars, evalVars>>

\* ConsulStorage.Create: kv.Get(key) and the test of what it found
ConsulCreateGet(c, id) ==
    /\ backend = "consul"
    /\ sc[c].pc = "idle"
    /\ IF kv[id] # 0
       THEN StoreReturn(c, "create", id, "exists")
       ELSE sc' = [sc EXCEPT ![c] = [pc |-> "createPut", op |-> "create", id |-> id,
                                     res |-> "none"]]
    /\ UNCHANGED <<lifeVars, libVars, tarVars, defVars, evalVars, kv>>

\* ConsulStorage.Create: kv.Put(p, nil)
ConsulCreatePut(c) ==
    /\ sc[c].pc = "createPut"
    /\ kv' = [kv EXCEPT ![sc[c].id] = c]
    /\ StoreReturn(c, "create", sc[c].id, "ok")
    /\ UNCHANGED <<lifeVars, libVars, tarVars, defVars, evalVars>>

\* MemoryStorage.Update: under the mutex, not found for a missing id
MemoryUpdate(c, id) ==
    /\ backend = "memory"
    /\ sc[c].pc = "idle"
    /\ IF kv[id] = 0
       THEN StoreReturn(c, "update", id, "notfound") /\ UNCHANGED kv
       ELSE /\ kv' = [kv EXCEPT ![id] = c]
            /\ StoreReturn(c, "update", id, "ok")
    /\ UNCHANGED <<lifeVars, libVars, tarVars, defVars, evalVars>>

\* ConsulStorage.Update: kv.Put(p, nil), whatever the key holds
ConsulUpdate(c, id) ==
    /\ backend = "consul"
    /\ sc[c].pc = "idle"
    /\ kv' = [kv EXCEPT ![id] = c]
    /\ StoreReturn(c, "update", id, "ok")
    /\ UNCHANGED <<lifeVars, libVars, tarVars, defVars, evalVars>>

\* MemoryStorage.Delete / ConsulStorage.Delete
StoreDelete(c, id) ==
    /\ sc[c].pc = "idle"
    /\ kv' = [kv EXCEPT ![id] = 0]
    /\ StoreReturn(c, "delete", id, "ok")
    /\ UNCHANGED <<lifeVars, libVars, tarVars, defVars, evalVars>>

StoreInit ==
    /\ kv = [id \in StoreIds |-> 0]
    /\ sc = [c \in Clients |-> IdleCall]

StoreNext ==
    \/ \E c \in Clients, id \in StoreIds : MemoryCreate(c, id)
    \/ \E c \in Clients, id \in StoreIds : ConsulCreateGet(c, id)
    \/ \E c \in Clients : ConsulCreatePut(c)
    \/ \E c \in Clients, id \in StoreIds : MemoryUpdate(c, id)
    \/ \E c \in Clients, id \in StoreIds : ConsulUpdate(c, id)
    \/ \E c \in Clients, id \in StoreIds : StoreDelete(c, id)

\* ------------------------------------------------------------------ ExecuteEval validation
\* Only len(...) and == "" are taken of code and of each file's content, so a
\* content is kept as its length in bytes.
maxCodeSize == 100 * 1024
ContentLens == {0, 1, maxCodeSize - 1, maxCodeSize, maxCodeSize + 1}
FileLists == UNION {[1..n -> ContentLens] : n \in 0..MaxFiles}
PythonVersions == {"", "3.12", "2.7"}
pythonVersionImages == {"3.10", "3.11", "3.12", "3.13"}
EvalRequests ==
    [valid : BOOLEAN, code : ContentLens, files : FileLists, version : PythonVersions]

NoRequest == [valid |-> FALSE, code |-> 0, files |-> <<>>, version |-> ""]

RECURSIVE SumLens(_)
SumLens(fs) == IF fs = <<>> THEN 0 ELSE Head(fs) + SumLens(Tail(fs))

\* ExecuteEval answers with a status code and returns
EvalAnswer(code) ==
    /\ evalResp' = code
    /\ evalPc' = "done"

\* c.ShouldBindJSON(&req)
EvalBind ==
    /\ evalPc = "bind"
    /\ IF ~evalReq.valid
       THEN EvalAnswer("400")
       ELSE evalPc' = "presence" /\ UNCHANGED evalResp
    /\ UNCHANGED <<lifeVars, libVars, tarVars, defVars, storeVars, evalReq, evalFiles>>

\* a request that gives only files
HasInput_CodeOnly(req) == req.code # 0

\* the negation of: req.Code == "" && len(req.Files) == 0
HasInput(req) == ~(req.code = 0 /\ Len(req.files) = 0)

\* "Validate request"
EvalValidatePresence ==
    /\ evalPc = "presence"
    /\ IF ~HasInput(evalReq)
       THEN EvalAnswer("400")
       ELSE evalPc' = "version" /\ UNCHANGED evalResp
    /\ UNCHANGED <<lifeVars, libVars, tarVars, defVars, storeVars, evalReq, evalFiles>>

\* "Validate and resolve Python version to Docker image"
EvalResolveVersion ==
    /\ evalPc = "version"
    /\ IF evalReq.version # "" /\ evalReq.version \notin pythonVersionImages
       THEN EvalAnswer("400")
       ELSE evalPc' = "build" /\ UNCHANGED evalResp
    /\ UNCHANGED <<lifeVars, libVars, tarVars, defVars, storeVars, evalReq, evalFiles>>

\* "Build files list": req.Files when there are any, else main.py with req.Code
EvalBuildFiles ==
    /\ evalPc = "build"
    /\ evalFiles' = IF Len(evalReq.files) > 0 THEN evalReq.files ELSE <<evalReq.code>>
    /\ evalPc' = "size"
    /\ UNCHANGED <<lifeVars, libVars, tarVars, defVars, storeVars, evalReq, evalResp>>

\* a limit that the total has to stay below
TooLarge_AtLimit(total) == total >= maxCodeSize

\* totalSize > maxCodeSize
TooLarge(total) == total > maxCodeSize

\* "Validate size"; an accepted request goes on to the archive and the job
EvalValidateSize ==
    /\ evalPc = "size"
    /\ IF TooLarge(SumLens(evalFiles)) THEN EvalAnswer("413") ELSE EvalAnswer("accepted")
    /\ UNCHANGED <<lifeVars, libVars, tarVars, defVars, storeVars, evalReq, evalFiles>>

EvalInit ==
    /\ evalReq \in EvalRequests
    /\ evalPc = "bind"
    /\ evalFiles = <<>>
    /\ evalResp = "none"

EvalOff ==
    /\ evalReq = NoRequest
    /\ evalPc = "off"
    /\ evalFiles = <<>>
    /\ evalResp = "none"

\* the rest of a submission handler: ExecuteEval goes on to storage.Create once
\* its request passed validation; ExecuteSync and ExecuteAsync take no /eval body
EvalSubmit(m, ok) ==
    /\ IF m = "eval" THEN evalResp = "accepted" ELSE evalPc = "off"
    /\ Submit(1, m, ok)

EvalNext ==
    \/ EvalBind
    \/ EvalValidatePresence
    \/ EvalResolveVersion
    \/ EvalBuildFiles
    \/ EvalValidateSize
    \/ \E m \in {"sync", "eval", "async"}, ok \in BOOLEAN : EvalSubmit(m, ok)
    \/ AsyncGet(1)
    \/ SetRunning(1)
    \/ SetStarted(1)
    \/ UpdateRunning(1)

\* ------------------------------------------------------------------ client.DetectEntrypoint
\* A string is the sequence of its characters.
Str_py == <<".", "p", "y">>
Str_main_py == <<"m", "a", "i", "n", ".", "p", "y">>
Str_dunder_main_py == <<"_", "_", "m", "a", "i", "n", "_", "_", ".", "p", "y">>

\* strings.HasSuffix
HasSuffix(str, suffix) ==
    /\ Len(str) >= Len(suffix)
    /\ SubSeq(str, Len(str) - Len(suffix) + 1, Len(str)) = suffix

\* filepath.Base: trailing separators are dropped, then the text after the last
\* separator; "." for an empty path, "/" for a path of separators only
RECURSIVE StripTrailingSlashes(_)
StripTrailingSlashes(path) ==
    IF Len(path) > 0 /\ path[Len(path)] = "/"
    THEN StripTrailingSlashes(SubSeq(path, 1, Len(path) - 1))
    ELSE path

Base(path) ==
    IF path = <<>> THEN <<".">>
    ELSE LET stripped == StripTrailingSlashes(path)
             seps == {i \in 1..Len(stripped) : stripped[i] = "/"}
             last == IF seps = {} THEN 0 ELSE CHOOSE i \in seps : \A o \in seps : o <= i
         IN IF stripped = <<>> THEN <<"/">>
            ELSE SubSeq(stripped, last + 1, Len(stripped))

\* the names and typeflags of the headers of an archive
HeaderNames ==
    { Str_main_py,
      <<"d", "/">> \o Str_main_py,
      Str_dunder_main_py,
      <<"a">> \o Str_py,
      <<"b">> \o Str_py,
      <<"a">> \o Str_main_py,
      Str_main_py \o <<"c">> }
HeaderTypes == {"reg", "dir"}
Headers == [name : HeaderNames, typ : HeaderTypes]

NoEntrypoint == [done |-> FALSE, name |-> <<>>, err |-> FALSE]

\* return header.Name, nil / return "", fmt.Errorf(...)
Found(name) == [done |-> TRUE, name |-> name, err |-> FALSE]
NotFound == [done |-> TRUE, name |-> <<>>, err |-> TRUE]

\* a test of the whole name in place of the base name
IsMainPy_WholeName(name) == name = Str_main_py

\* basename == "main.py"
IsMainPy(name) == Base(name) = Str_main_py

\* the loop over reader.Next() from header i on, and the returns after it
RECURSIVE DetectFrom(_, _, _, _)
DetectFrom(hs, i, candidates, firstPy) ==
    IF i > Len(hs)
    THEN IF Len(candidates) > 0 THEN Found(candidates[1])
         ELSE IF firstPy # <<>> THEN Found(firstPy)
         ELSE NotFound
    ELSE LET header == hs[i]
         IN IF header.typ = "reg" /\ HasSuffix(header.name, Str_py)
            THEN IF IsMainPy(header.name)
                 THEN Found(header.name)
                 ELSE DetectFrom(hs, i + 1,
                                 IF Base(header.name) = Str_dunder_main_py
                                 THEN Append(candidates, header.name)
                                 ELSE candidates,
                                 IF firstPy = <<>> THEN header.name ELSE firstPy)
            ELSE DetectFrom(hs, i + 1, candidates, firstPy)

DetectEntrypoint(hs) == DetectFrom(hs, 1, <<>>, <<>>)

\* a caller applies DetectEntrypoint to its archive
CallDetectEntrypoint ==
    /\ ~entrypoint.done
    /\ entrypoint' = DetectEntrypoint(tarData)
    /\ UNCHANGED <<lifeVars, tarVars, defVars, storeVars, evalVars, tarData, rtVars,
                   mergeVars, reqVars, errVars, extVars>>

DetInit ==
    /\ \E n \in 0..MaxHeaders : tarData \in [1..n -> Headers]
    /\ entrypoint = NoEntrypoint

\* no archive: what DetectEntrypoint returns for one without headers
DetOff ==
    /\ tarData = <<>>
    /\ entrypoint = NotFound

\* ------------------------------------------------------------------ buildTarFromFiles
\* the names and contents of the files of a request
CodeFileNames ==
    { <<"a">>, <<"b">>, <<"a", "/", "b">>, <<".", "/", "a">>, <<"a", "/">>,
      <<"/", "a">>, <<".", ".">> }
CodeFileContents == {"", "p"}
CodeFiles == [name : CodeFileNames, content : CodeFileContents]

\* tar.Writer.WriteHeader for a header without Typeflag: a directory when the
\* name ends in a slash, else a regular file
WriterTypeflag(name) == IF HasSuffix(name, <<"/">>) THEN "dir" ELSE "reg"

\* one iteration of the loop of buildTarFromFiles: the entry the writer emits
BuildEntry_NoContent(f) ==
    [name |-> f.name, typ |-> WriterTypeflag(f.name), content |-> ""]

BuildEntry(f) ==
    [name |-> f.name, typ |-> WriterTypeflag(f.name), content |-> f.content]

\* tw.Write fails when the header holds no room for the content: a directory
\* entry is written with size 0
WriteFails(f) == WriterTypeflag(f.name) = "dir" /\ f.content # ""

\* buildTarFromFiles: the archive, or an error
buildTarFromFiles(fs) ==
    IF \E i \in 1..Len(fs) : WriteFails(fs[i])
    THEN [err |-> TRUE, entries |-> <<>>]
    ELSE [err |-> FALSE, entries |-> [i \in 1..Len(fs) |-> BuildEntry(fs[i])]]

\* tar.ListFiles: the names of the regular files, in archive order
RECURSIVE ListFiles(_)
ListFiles(entries) ==
    IF entries = <<>> THEN <<>>
    ELSE IF Head(entries).typ = "reg"
         THEN <<Head(entries).name>> \o ListFiles(Tail(entries))
         ELSE ListFiles(Tail(entries))

\* tarData, err := buildTarFromFiles(files)
RtBuild ==
    /\ rtPc = "build"
    /\ LET built == buildTarFromFiles(codeFiles)
       IN IF built.err
          THEN rtPc' = "buildErr" /\ UNCHANGED archive
          ELSE rtPc' = "list" /\ archive' = built.entries
    /\ UNCHANGED <<lifeVars, defVars, storeVars, evalVars, detVars, mergeVars, reqVars,
                   errVars, extVars, codeFiles, listed, tidx, written, tres>>

\* ListFiles(tarData), and ExtractToDir(tarData, destDir) begins
RtList ==
    /\ rtPc = "list"
    /\ listed' = ListFiles(archive)
    /\ rtPc' = "extract"
    /\ tres' = "running"
    /\ UNCHANGED <<lifeVars, defVars, storeVars, evalVars, detVars, mergeVars, reqVars,
                   errVars, extVars, codeFiles, archive, tidx, written>>

RtInit ==
    /\ \E n \in 0..MaxFiles : codeFiles \in [1..n -> CodeFiles]
    /\ rtPc = "build"
    /\ listed = <<>>

RtOff ==
    /\ codeFiles = <<>>
    /\ rtPc = "off"
    /\ listed = <<>>

RtNext == RtBuild \/ RtList \/ ExtractEntry \/ ExtractEOF

\* ------------------------------------------------------------------ imports.MergeRequirements
\* A text is the sequence of its characters, "\n" among them.
TextChars == {"n", "N", "p", "=", "#", " ", "\n"}
PackageNames == {<<"n">>, <<"N">>, <<"p">>}
UserTexts == UNION {[1..n -> TextChars] : n \in 0..MaxUserLen}

\* strings.Split(text, "\n")
RECURSIVE SplitLines(_, _, _)
SplitLines(text, i, cur) ==
    LET breaks == {k \in i..Len(text) : text[k] = "\n"}
        next == CHOOSE k \in breaks : \A o \in breaks : k <= o
    IN IF breaks = {} THEN <<cur \o SubSeq(text, i, Len(text))>>
       ELSE <<cur \o SubSeq(text, i, next - 1)>> \o SplitLines(text, next + 1, <<>>)

\* strings.Join(lines, "\n")
RECURSIVE JoinLines(_)
JoinLines(lines) ==
    IF lines = <<>> THEN <<>>
    ELSE IF Len(lines) = 1 THEN lines[1]
    ELSE lines[1] \o <<"\n">> \o JoinLines(Tail(lines))

\* strings.TrimSpace
IsSpace(c) == c = " " \/ c = "\n"
RECURSIVE TrimSpace(_)
TrimSpace(str) ==
    IF str = <<>> THEN str
    ELSE IF IsSpace(str[1]) THEN TrimSpace(Tail(str))
    ELSE IF IsSpace(str[Len(str)]) THEN TrimSpace(SubSeq(str, 1, Len(str) - 1))
    ELSE str

\* strings.ToLower
ToLower(str) == [i \in 1..Len(str) |-> IF str[i] = "N" THEN "n" ELSE str[i]]

\* c == '=' || c == '>' || c == '<' || c == '!' || c == '[' || c == ';'
IsSpecifier(c) == c \in {"=", ">", "<", "!", "[", ";"}

\* a package name that keeps the version specifier
extractPackageName_WholeLine(line) == TrimSpace(line)

\* extractPackageName: the text before the first specifier character, trimmed
extractPackageName(line) ==
    LET at == {i \in 1..Len(line) : IsSpecifier(line[i])}
    IN IF at = {} THEN TrimSpace(line)
       ELSE TrimSpace(SubSeq(line, 1, (CHOOSE i \in at : \A o \in at : i <= o) - 1))

\* "Parse user-provided packages": the keys of userPackages
UserPackages(user) ==
    LET lines == SplitLines(user, 1, <<>>)
    IN {ToLower(extractPackageName(TrimSpace(lines[i]))) :
           i \in {k \in 1..Len(lines) :
                     /\ TrimSpace(lines[k]) # <<>>
                     /\ ~(TrimSpace(lines[k])[1] = "#")}}

\* "Add detected packages that aren't already in user-provided": what the loop
\* writes to result for the lines from the first of lines on
RECURSIVE AppendDetected(_, _)
AppendDetected(lines, userPackages) ==
    IF lines = <<>> THEN <<>>
    ELSE LET line == TrimSpace(Head(lines))
         IN IF line = <<>>
            THEN AppendDetected(Tail(lines), userPackages)
            ELSE IF ToLower(extractPackageName(line)) \notin userPackages
            THEN <<"\n">> \o line \o AppendDetected(Tail(lines), userPackages)
            ELSE AppendDetected(Tail(lines), userPackages)

MergeRequirements(det, user) ==
    IF user = <<>> THEN det
    ELSE IF det = <<>> THEN user
    ELSE user \o AppendDetected(SplitLines(det, 1, <<>>), UserPackages(user))

\* a caller applies MergeRequirements
CallMergeRequirements ==
    /\ ~merged.done
    /\ merged' = [done |-> TRUE, text |-> MergeRequirements(detected, userProvided)]
    /\ UNCHANGED <<lifeVars, tarVars, defVars, storeVars, evalVars, detVars, rtVars,
                   reqVars, errVars, extVars, detected, userProvided>>

\* the detected text is a list of package names, one per line, as
\* DetectRequirements joins them
MergeInit ==
    /\ \E n \in 0..MaxDetected :
          \E names \in [1..n -> PackageNames] : detected = JoinLines(names)
    /\ userProvided \in UserTexts
    /\ merged = [done |-> FALSE, text |-> <<>>]

\* nothing to merge: what MergeRequirements returns for two empty texts
MergeOff ==
    /\ detected = <<>>
    /\ userProvided = <<>>
    /\ merged = [done |-> TRUE, text |-> <<>>]

\* ------------------------------------------------------------------ imports.DetectRequirements
\* The source is kept as its import statements: "import M" or "from M import ...",
\* with live FALSE for one inside a string literal or a comment, which ParseImports
\* removes before it matches.
Str_os == <<"o", "s">>
Str_np == <<"n", "p">>
Str_numpy == <<"n", "u", "m", "p", "y">>
Str_PIL == <<"P", "I", "L">>
Str_Pillow == <<"P", "i", "l", "l", "o", "w">>
ModuleRefs ==
    { Str_os, Str_os \o <<".", "p">>, Str_np, Str_numpy, Str_PIL, <<"a", "b">>,
      <<"1", "a">> }
Statements == [form : {"import", "from"}, module : ModuleRefs, live : BOOLEAN]

\* the characters of the names, in the order of their codes
CharCodes ==
    <<".", "1", "I", "L", "P", "a", "b", "i", "l", "m", "n", "o", "p", "s", "u", "w", "y">>
CharOrd(c) == CHOOSE i \in 1..Len(CharCodes) : CharCodes[i] = c

\* a < b for strings, as sort.Strings compares them
RECURSIVE StrLess(_, _)
StrLess(a, b) ==
    IF b = <<>> THEN FALSE
    ELSE IF a = <<>> THEN TRUE
    ELSE IF a[1] # b[1] THEN CharOrd(a[1]) < CharOrd(b[1])
    ELSE StrLess(Tail(a), Tail(b))

\* isValidModuleName: a letter or underscore first, then letters, digits, _ and .
IsLetter(c) == c \notin {".", "1"}
isValidModuleName(name) ==
    /\ name # <<>>
    /\ IsLetter(name[1])
    /\ \A i \in 2..Len(name) : IsLetter(name[i]) \/ name[i] \in {"1", "."}

\* extractTopLevel: the text before the first dot, when that is not empty
extractTopLevel(module) ==
    LET dots == {i \in 1..Len(module) : module[i] = "."}
        idx == IF dots = {} THEN 0 ELSE CHOOSE i \in dots : \A o \in dots : i <= o
    IN IF idx > 1 THEN SubSeq(module, 1, idx - 1) ELSE module

\* ParseImports: the top-level modules of the import statements left after
\* string literals and comments are removed
ParseImports(src) ==
    {extractTopLevel(src[i].module) :
        i \in {k \in 1..Len(src) : src[k].live /\ isValidModuleName(src[k].module)}}

\* stdlibModules, moduleToPackage
stdlibModules == {Str_os}
IsStdlib(module) == module \in stdlibModules
GetPackageName(module) ==
    IF module = Str_PIL THEN Str_Pillow
    ELSE IF module = Str_np THEN Str_numpy
    ELSE module

\* the keys of packages
Packages(src) == {GetPackageName(m) : m \in {x \in ParseImports(src) : ~IsStdlib(x)}}

\* the orders in which a range over a map may yield its keys
Orderings(S) ==
    {seq \in [1..Cardinality(S) -> S] : \A x \in S : \E i \in 1..Cardinality(S) : seq[i] = x}

\* a result left in the order of the map
SortStrings_Unsorted(seq) == seq

\* sort.Strings
RECURSIVE InsertSorted(_, _)
InsertSorted(x, seq) ==
    IF seq = <<>> THEN <<x>>
    ELSE IF StrLess(Head(seq), x) THEN <<Head(seq)>> \o InsertSorted(x, Tail(seq))
    ELSE <<x>> \o seq
RECURSIVE SortAll(_)
SortAll(seq) == IF seq = <<>> THEN <<>> ELSE InsertSorted(Head(seq), SortAll(Tail(seq)))
SortStrings(seq) == SortAll(seq)

\* DetectRequirements, the range over packages yielding its keys in any order
CallDetectRequirements ==
    /\ ~requirements.done
    /\ IF Packages(pyCode) = {}
       THEN requirements' = [done |-> TRUE, text |-> <<>>]
       ELSE \E result \in Orderings(Packages(pyCode)) :
               requirements' = [done |-> TRUE, text |-> JoinLines(SortStrings(result))]
    /\ UNCHANGED <<lifeVars, tarVars, defVars, storeVars, evalVars, detVars, rtVars,
                   mergeVars, errVars, extVars, pyCode>>

ReqInit ==
    /\ \E n \in 0..MaxStatements : pyCode \in [1..n -> Statements]
    /\ requirements = [done |-> FALSE, text |-> <<>>]

\* no source: what DetectRequirements returns for an empty one
ReqOff ==
    /\ pyCode = <<>>
    /\ requirements = [done |-> TRUE, text |-> <<>>]

\* ------------------------------------------------------------------ parseErrorFromStderr
\* lines a script may leave on its standard error
Line_NameError ==
    <<"N", "a", "m", "e", "E", "r", "r", "o", "r", ":", " ", "x">>
Line_IndentedKeyError ==
    <<" ", " ", "K", "e", "y", "E", "r", "r", "o", "r", ":", " ", "k">>
Line_Error ==
    <<"E", "r", "r", "o", "r", ":", " ", "e">>
Line_lowerError ==
    <<"n", "a", "m", "e", "E", "r", "r", "o", "r", ":", " ", "x">>
Line_NoColon ==
    <<"V", "a", "l", "u", "e", "E", "r", "r", "o", "r">>
Line_IndentedFile ==
    <<" ", " ", "F", "i", "l", "e", " ", "\"", "m", ".", "p", "y", "\"", ",", " ", "l",
      "i", "n", "e", " ", "3", ",", " ", "i", "n", " ", "f">>
Line_File12 ==
    <<"F", "i", "l", "e", " ", "\"", "m", ".", "p", "y", "\"", ",", " ", "l", "i", "n",
      "e", " ", "1", "2">>
Line_FileHuge ==
    <<"F", "i", "l", "e", " ", "\"", "m", ".", "p", "y", "\"", ",", " ", "l", "i", "n",
      "e", " ", "9", "9", "9", "9", "9", "9", "9", "9", "9", "9", "9", "9", "9", "9",
      "9", "9", "9", "9", "9", "9">>
Line_TypeAndFile ==
    <<"T", "y", "p", "e", "E", "r", "r", "o", "r", ":", " ", "F", "i", "l", "e", " ",
      "\"", "a", "\"", ",", " ", "l", "i", "n", "e", " ", "5">>
Line_TwoFiles ==
    <<"F", "i", "l", "e", " ", "\"", "a", "\"", ",", " ", "l", "i", "n", "e", " ", "1",
      ",", " ", "F", "i", "l", "e", " ", "\"", "b", "\"", ",", " ", "l", "i", "n", "e",
      " ", "2">>
Line_Blank ==
    <<" ", " ">>
StderrLines ==
    { <<>>, Line_Blank, Line_NameError, Line_IndentedKeyError, Line_Error, Line_lowerError,
      Line_NoColon, Line_IndentedFile, Line_File12, Line_FileHuge, Line_TypeAndFile,
      Line_TwoFiles }

UpperChars ==
    {"A", "B", "C", "D", "E", "F", "G", "H", "I", "J", "K", "L", "M", "N", "O", "P", "Q",
     "R", "S", "T", "U", "V", "W", "X", "Y", "Z"}
LowerChars ==
    {"a", "b", "c", "d", "e", "f", "g", "h", "i", "j", "k", "l", "m", "n", "o", "p", "q",
     "r", "s", "t", "u", "v", "w", "x", "y", "z"}
Digits == <<"0", "1", "2", "3", "4", "5", "6", "7", "8", "9">>
IsDigit(c) == \E d \in 1..10 : Digits[d] = c
DigitValue(c) == (CHOOSE d \in 1..10 : Digits[d] = c) - 1

\* the text of str from position i on begins with prefix
HasPrefixAt(str, i, prefix) ==
    /\ i + Len(prefix) - 1 <= Len(str)
    /\ SubSeq(str, i, i + Len(prefix) - 1) = prefix

\* the longest run of characters of a set that begins at position i
RunFrom(str, i, set) ==
    LET stops == {k \in i..Len(str) : str[k] \notin set}
        stop == CHOOSE k \in stops : \A o \in stops : k <= o
    IN SubSeq(str, i, IF stops = {} THEN Len(str) ELSE stop - 1)

\* pythonErrorTypePattern, ^([A-Z][a-zA-Z]*Error): the identifier it captures,
\* or the empty string when the line does not match
ErrorTypeOf(line) ==
    LET ident == RunFrom(line, 1, UpperChars \cup LowerChars)
    IN IF /\ Len(ident) >= 6
          /\ ident[1] \in UpperChars
          /\ HasSuffix(ident, <<"E", "r", "r", "o", "r">>)
          /\ HasPrefixAt(line, Len(ident) + 1, <<":">>)
       THEN ident
       ELSE <<>>

\* pythonErrorLinePattern, File ".*", line (\d+): the digits it captures, or the
\* empty string when the line does not match.  The match begins at the first
\* File " and .* runs to the last ", line followed by a digit.
Str_File == <<"F", "i", "l", "e", " ", "\"">>
Str_CommaLine == <<"\"", ",", " ", "l", "i", "n", "e", " ">>
LineDigitsOf(line) ==
    LET starts == {i \in 1..Len(line) : HasPrefixAt(line, i, Str_File)}
        first == CHOOSE i \in starts : \A o \in starts : i <= o
        ends == {j \in 1..Len(line) :
                    /\ j >= first + Len(Str_File)
                    /\ HasPrefixAt(line, j, Str_CommaLine)
                    /\ j + Len(Str_CommaLine) <= Len(line)
                    /\ IsDigit(line[j + Len(Str_CommaLine)])}
        last == CHOOSE j \in ends : \A o \in ends : o <= j
    IN IF starts = {} THEN <<>>
       ELSE IF ends = {} THEN <<>>
       ELSE RunFrom(line, last + Len(Str_CommaLine), {Digits[d] : d \in 1..10})

\* strconv.Atoi: an error for a numeral beyond the range of int
Str_MaxInt ==
    <<"9", "2", "2", "3", "3", "7", "2", "0", "3", "6", "8", "5", "4", "7", "7", "5", "8",
      "0", "7">>
RECURSIVE StripZeros(_)
StripZeros(ds) == IF Len(ds) > 1 /\ ds[1] = "0" THEN StripZeros(Tail(ds)) ELSE ds
RECURSIVE DigitsGreater(_, _)
DigitsGreater(a, b) ==
    IF a = <<>> THEN FALSE
    ELSE IF a[1] # b[1] THEN DigitValue(a[1]) > DigitValue(b[1])
    ELSE DigitsGreater(Tail(a), Tail(b))
AtoiFails(ds) ==
    LET n == StripZeros(ds)
    IN Len(n) > Len(Str_MaxInt) \/ (Len(n) = Len(Str_MaxInt) /\ DigitsGreater(n, Str_MaxInt))
RECURSIVE AtoiValue(_, _)
AtoiValue(ds, acc) ==
    IF ds = <<>> THEN acc ELSE AtoiValue(Tail(ds), 10 * acc + DigitValue(ds[1]))

\* a search for the error type from the first line on
RECURSIVE ScanErrorType_Forward(_, _)
ScanErrorType_Forward(lines, i) ==
    IF lines = <<>> THEN <<>>
    ELSE IF ErrorTypeOf(TrimSpace(Head(lines))) # <<>> THEN ErrorTypeOf(TrimSpace(Head(lines)))
    ELSE ScanErrorType_Forward(Tail(lines), i - 1)

\* "Search for error type": for i := len(lines) - 1; i >= 0; i--
RECURSIVE ScanErrorType(_, _)
ScanErrorType(lines, i) ==
    IF i < 1 THEN <<>>
    ELSE LET line == TrimSpace(lines[i])
         IN IF line = <<>> THEN ScanErrorType(lines, i - 1)
            ELSE IF ErrorTypeOf(line) # <<>> THEN ErrorTypeOf(line)
            ELSE ScanErrorType(lines, i - 1)

\* "Search for line number": for _, line := range lines
RECURSIVE ScanErrorLine(_, _)
ScanErrorLine(lines, i) ==
    IF i > Len(lines) THEN 0
    ELSE LET ds == LineDigitsOf(lines[i])
         IN IF ds # <<>> /\ ~AtoiFails(ds) THEN AtoiValue(ds, 0)
            ELSE ScanErrorLine(lines, i + 1)

parseErrorFromStderr(text) ==
    LET lines == SplitLines(text, 1, <<>>)
    IN [done |-> TRUE,
        errorType |-> ScanErrorType(lines, Len(lines)),
        errorLine |-> ScanErrorLine(lines, 1)]

\* ExecuteEval applies parseErrorFromStderr to the output of a failed script
CallParseError ==
    /\ ~parsed.done
    /\ parsed' = parseErrorFromStderr(stderr)
    /\ UNCHANGED <<lifeVars, tarVars, defVars, storeVars, evalVars, detVars, rtVars,
                   mergeVars, reqVars, extVars, stderr>>

ErrInit ==
    /\ \E n \in 0..MaxStderrLines :
          \E lines \in [1..n -> StderrLines] : stderr = JoinLines(lines)
    /\ parsed = [done |-> FALSE, errorType |-> <<>>, errorLine |-> 0]

\* no output: what parseErrorFromStderr returns for an empty text
ErrOff ==
    /\ stderr = <<>>
    /\ parsed = [done |-> TRUE, errorType |-> <<>>, errorLine |-> 0]

\* ------------------------------------------------------------------ submission and entrypoint
\* A submission by multipart form (ExecuteSync, ExecuteAsync) carries a tar and a
\* metadata JSON; one by JSON body (ExecuteEval) carries files or code and may
\* name an entrypoint.
Str_a_py == <<"a">> \o Str_py
SubNames == {Str_main_py, Str_a_py}
SubEntrypoints == SubNames \cup { <<>> }
SubHeaders == [name : SubNames, typ : {"reg", "dir"}]
SubFiles == [name : SubNames \cup { <<"a", "/">> }, content : {"p"}]

\* parseRequest returns the tar and the metadata as they came, and ExecuteEval goes
\* on with the entrypoint it determined: neither looks for the entrypoint in the tar
SubmissionAccepted(entry, tar) == TRUE

\* ExecuteEval: "Build files list"
EvalFiles(req) ==
    IF Len(req.files) > 0 THEN req.files ELSE <<[name |-> Str_main_py, content |-> "p"]>>

\* ExecuteEval: "Determine entrypoint"
EvalEntrypoint(req) ==
    IF req.entrypoint # <<>> THEN req.entrypoint
    ELSE IF Len(req.files) > 0 THEN req.files[1].name
    ELSE Str_main_py

\* the handler up to its new Execution: the entrypoint of the metadata and the
\* tar it will hand to Execute, or an error response
AcceptSubmission ==
    /\ subJob.pc = "request"
    /\ LET built == buildTarFromFiles(EvalFiles(subReq))
           entry == IF subReq.kind = "eval" THEN EvalEntrypoint(subReq) ELSE subReq.entrypoint
           tar == IF subReq.kind = "eval" THEN built.entries ELSE subReq.tar
       IN IF (subReq.kind = "eval" /\ built.err) \/ ~SubmissionAccepted(entry, tar)
          THEN subJob' = [pc |-> "rejected", entrypoint |-> <<>>, tar |-> <<>>]
          ELSE subJob' = [pc |-> "accepted", entrypoint |-> entry, tar |-> tar]
    /\ UNCHANGED <<lifeVars, tarVars, defVars, storeVars, evalVars, detVars, rtVars,
                   mergeVars, reqVars, errVars, cmdVars, pollVars, subReq>>

\* storage.Create by the handler that took the submission
SubmitAccepted(m, ok) ==
    /\ subJob.pc = "accepted"
    /\ (m = "eval") = (subReq.kind = "eval")
    /\ Submit(1, m, ok)

EntInit ==
    /\ \/ \E n \in 0..MaxSubFiles :
             subReq \in [kind : {"multipart"}, entrypoint : SubEntrypoints,
                         tar : [1..n -> SubHeaders], files : { <<>> }]
       \/ \E n \in 0..MaxSubFiles :
             subReq \in [kind : {"eval"}, entrypoint : SubEntrypoints,
                         tar : { <<>> }, files : [1..n -> SubFiles]]
    /\ subJob = [pc |-> "request", entrypoint |-> <<>>, tar |-> <<>>]

EntOff ==
    /\ subReq = [kind |-> "multipart", entrypoint |-> <<>>, tar |-> <<>>, files |-> <<>>]
    /\ subJob = [pc |-> "off", entrypoint |-> <<>>, tar |-> <<>>]

\* ------------------------------------------------------------------ buildCommand
\* A text is a sequence of characters; the fixed texts of the command line are
\* single elements of it.
Lit_Sep == " && "
Lit_Echo == "echo '"
Lit_To == "' > "
Lit_Pip == "pip install --no-cache-dir -r "
Lit_Python == "python "
Lit_Work == "/work"
Lit_ReqFile == <<Lit_Work, "/", "requirements.txt">>

PreCommandTexts == { <<"x">>, <<"y", " ", "z">> }
RequirementsTexts == { <<>>, <<"r">>, <<"r", "'">> }
EntrypointTexts == { <<"m">>, <<"m", " ">>, <<>> }
ScriptArgTexts == { <<"a">>, <<"b", " ">>, <<"'">>, <<>> }

\* strings.ReplaceAll(text, old, new) for a one-character old
RECURSIVE ReplaceAll(_, _, _)
ReplaceAll(text, old, new) ==
    IF text = <<>> THEN <<>>
    ELSE (IF Head(text) = old THEN new ELSE <<Head(text)>>) \o ReplaceAll(Tail(text), old, new)

\* shellescape.Quote: '' for the empty string, the string itself when it has no
\* character outside [\w@%+=:,./-], else the string in single quotes with each
\* single quote written '"'"'
UnsafeChars == {" ", "'", "&"}
Quote(str) ==
    IF str = <<>> THEN <<"'", "'">>
    ELSE IF \A i \in 1..Len(str) : str[i] \notin UnsafeChars THEN str
    ELSE <<"'">> \o ReplaceAll(str, "'", <<"'", "\"", "'", "\"", "'">>) \o <<"'">>

\* filepath.Join("/work", meta.Entrypoint) for an entrypoint without . or ..
ScriptPath(entry) == IF entry = <<>> THEN <<Lit_Work>> ELSE <<Lit_Work, "/">> \o entry

\* pythonCmd += " " + shellescape.Quote(arg), for each argument
RECURSIVE AppendArgs(_, _)
AppendArgs(pythonCmd, args) ==
    IF args = <<>> THEN pythonCmd
    ELSE AppendArgs(pythonCmd \o <<" ">> \o Quote(Head(args)), Tail(args))

\* the two parts that install the requirements
RequirementsParts(text) ==
    << <<Lit_Echo>> \o ReplaceAll(text, "'", <<"'", "\\", "'", "'">>) \o <<Lit_To>>
          \o Lit_ReqFile,
       <<Lit_Pip>> \o Lit_ReqFile >>

\* parts that install requirements whether or not there are any
CommandParts_AlwaysInstall(meta) ==
    meta.pre
    \o RequirementsParts(meta.requirements)
    \o << AppendArgs(<<Lit_Python>> \o Quote(ScriptPath(meta.entrypoint)), meta.args) >>

\* parts, as buildCommand appends them
CommandParts(meta) ==
    meta.pre
    \o (IF meta.requirements # <<>> THEN RequirementsParts(meta.requirements) ELSE <<>>)
    \o << AppendArgs(<<Lit_Python>> \o Quote(ScriptPath(meta.entrypoint)), meta.args) >>

\* strings.Join(parts, sep)
RECURSIVE Join(_, _)
Join(parts, sep) ==
    IF parts = <<>> THEN <<>>
    ELSE IF Len(parts) = 1 THEN parts[1]
    ELSE parts[1] \o sep \o Join(Tail(parts), sep)

buildCommand(meta) == [done |-> TRUE, text |-> Join(CommandParts(meta), <<Lit_Sep>>)]

\* createContainer: cmd := e.buildCommand(meta)
CallBuildCommand ==
    /\ ~command.done
    /\ command' = buildCommand(cmdMeta)
    /\ UNCHANGED <<lifeVars, tarVars, defVars, storeVars, evalVars, detVars, rtVars,
                   mergeVars, reqVars, errVars, entVars, pollVars, cmdMeta>>

CmdInit ==
    /\ \E n \in 0..MaxPreCommands, k \in 0..MaxScriptArgs :
          cmdMeta \in [pre : [1..n -> PreCommandTexts], requirements : RequirementsTexts,
                      entrypoint : EntrypointTexts, args : [1..k -> ScriptArgTexts]]
    /\ command = [done |-> FALSE, text |-> <<>>]

\* no metadata: nothing to build
CmdOff ==
    /\ cmdMeta = [pre |-> <<>>, requirements |-> <<>>, entrypoint |-> <<>>, args |-> <<>>]
    /\ command = [done |-> TRUE, text |-> <<>>]

\* ------------------------------------------------------------------ Client.WaitForCompletion
\* what one GetExecution of the client comes back with: the status of the result,
\* or "err" (transport error, a response other than 200, a body that does not parse)
PollAnswers ==
    {StatusPending, StatusRunning, StatusCompleted, StatusFailed, StatusKilled, "err"}

\* a test that takes every status but pending for the end
Finished_NotPending(st) == st # StatusPending

\* "Check if finished"
Finished(st) == st \in {StatusCompleted, StatusFailed, StatusKilled}

WaiterUnchanged ==
    UNCHANGED <<lifeVars, tarVars, defVars, storeVars, evalVars, detVars, rtVars,
                mergeVars, reqVars, errVars, entVars, cmdVars>>

\* the ticker puts a tick in its channel of capacity one, once per pollInterval;
\* a tick that finds the channel full is dropped
TickerFires ==
    /\ waiter.pc = "select"
    /\ waiter.ticks < MaxTicks
    /\ waiter' = [waiter EXCEPT !.ticks = @ + 1, !.tickReady = TRUE]
    /\ UNCHANGED waitCtx
    /\ WaiterUnchanged

\* the caller cancels the context, or its deadline passes
WaitCtxCancel ==
    /\ waiter.pc = "select"
    /\ waitCtx = "live"
    /\ waitCtx' = "done"
    /\ UNCHANGED waiter
    /\ WaiterUnchanged

\* select: case <-ctx.Done(): return nil, ctx.Err()
SelectDone ==
    /\ waiter.pc = "select"
    /\ waitCtx = "done"
    /\ waiter' = [waiter EXCEPT !.pc = "returned", !.ret = "error"]
    /\ UNCHANGED waitCtx
    /\ WaiterUnchanged

\* select: case <-ticker.C: GetExecution, which fails under a context that is
\* done; an error or a finished status returns, any other status loops
SelectTick(answer) ==
    /\ waiter.pc = "select"
    /\ waiter.tickReady
    /\ waitCtx = "done" => answer = "err"
    /\ waiter' =
          IF answer = "err"
          THEN [waiter EXCEPT !.tickReady = FALSE, !.polls = @ + 1, !.last = answer,
                              !.pc = "returned", !.ret = "error"]
          ELSE IF Finished(answer)
          THEN [waiter EXCEPT !.tickReady = FALSE, !.polls = @ + 1, !.last = answer,
                              !.pc = "returned", !.ret = "result", !.status = answer]
          ELSE [waiter EXCEPT !.tickReady = FALSE, !.polls = @ + 1, !.last = answer]
    /\ UNCHANGED waitCtx
    /\ WaiterUnchanged

\* a call with a live context and a positive pollInterval
PollInit ==
    /\ waiter = [pc |-> "select", ticks |-> 0, tickReady |-> FALSE, polls |-> 0,
                 last |-> "none", ret |-> "none", status |-> "none"]
    /\ waitCtx = "live"

PollOff ==
    /\ waiter = [pc |-> "off", ticks |-> 0, tickReady |-> FALSE, polls |-> 0,
                 last |-> "none", ret |-> "none", status |-> "none"]
    /\ waitCtx = "live"

PollNext ==
    \/ TickerFires
    \/ WaitCtxCancel
    \/ SelectDone
    \/ \E answer \in PollAnswers : SelectTick(answer)

ExtOff == EntOff /\ CmdOff /\ PollOff

EntNext ==
    \/ AcceptSubmission
    \/ \E m \in {"sync", "eval", "async"}, ok \in BOOLEAN : SubmitAccepted(m, ok)
    \/ AsyncGet(1)
    \/ SetRunning(1)
    \/ SetStarted(1)
    \/ UpdateRunning(1)
    \/ \E ok \in BOOLEAN : EnsureImage(1, ok)
    \/ \E ok \in BOOLEAN : CreateContainer(1, ok)
    \/ \E ok \in BOOLEAN : CopyToContainer(1, ok)
    \/ CopyFailRemove(1)
    \/ \E ok \in BOOLEAN : StartContainer(1, ok)

LibOff == DetOff /\ RtOff /\ MergeOff /\ ReqOff /\ ErrOff /\ ExtOff

\* ------------------------------------------------------------------ Next
WorkerStep(j) ==
    \/ AsyncGet(j)
    \/ SetRunning(j)
    \/ SetStarted(j)
    \/ UpdateRunning(j)
    \/ \E ok \in BOOLEAN : EnsureImage(j, ok)
    \/ \E ok \in BOOLEAN : CreateContainer(j, ok)
    \/ \E ok \in BOOLEAN : CopyToContainer(j, ok)
    \/ CopyFailRemove(j)
    \/ \E ok \in BOOLEAN : StartContainer(j, ok)
    \/ WaitErr(j)
    \/ WaitStatus(j)
    \/ WaitDone(j)
    \/ \E ok \in BOOLEAN : GetLogs(j, ok)
    \/ DeferRemove(j)
    \/ SetFinished(j)
    \/ SetTerminalStatus(j)
    \/ SetTerminalFields(j)
    \/ UpdateTerminal(j)

Next ==
    \/ \E j \in Jobs, m \in {"sync", "eval", "async"}, ok \in BOOLEAN : Submit(j, m, ok)
    \/ \E j \in Jobs : AsyncRespond(j)
    \/ \E j \in Jobs : WorkerStep(j)
    \/ \E j \in Jobs : DeadlineExpire(j)
    \/ \E j \in Jobs : CallerCancel(j)
    \/ \E j \in Jobs : ContainerExit(j)
    \/ \E j \in Jobs : GetExecution(j)
    \/ \E k \in Killers, j \in Jobs : KillGet(k, j)
    \/ \E k \in Killers, ok \in BOOLEAN : KillContainer(k, ok)
    \/ \E k \in Killers : KillSetStatus(k)
    \/ \E k \in Killers : KillUpdate(k)
    \/ CleanupMemory
    \/ CleanupList
    \/ CleanupDelete
    \/ Tick

\* main() with nothing extracted and no container configured
Init == LifeInit /\ TarOff /\ DefOff /\ StoreInit /\ EvalOff /\ LibOff

Spec == Init /\ [][Next]_vars

\* the state of an idle server
LifeOff == LifeInit /\ backend = "memory" /\ ttl = 0

\* every metadata JSON within the bounds, from the request to ContainerCreate
InitDefaults == LifeOff /\ TarOff /\ DefInit /\ StoreInit /\ EvalOff /\ LibOff

SpecDefaults == InitDefaults /\ [][DefNext]_vars

\* ExtractToDir on every archive within the bounds
InitTar == LifeOff /\ TarInit /\ DefOff /\ StoreInit /\ EvalOff /\ LibOff

SpecTar == InitTar /\ [][TarNext]_vars

\* callers of the Storage interface, on either store
InitStore == LifeInit /\ ttl = 0 /\ TarOff /\ DefOff /\ StoreInit /\ EvalOff /\ LibOff

SpecStore == InitStore /\ [][StoreNext]_vars

\* ExecuteEval on every request body within the bounds, and the three submission
\* handlers from storage.Create up to their call of Execute, on either store
InitEval == LifeInit /\ ttl = 0 /\ TarOff /\ DefOff
            /\ StoreInit /\ (EvalInit \/ EvalOff) /\ LibOff

SpecEval == InitEval /\ [][EvalNext]_vars

\* a server that has taken no request
IdleServer == LifeOff /\ TarOff /\ DefOff /\ StoreInit /\ EvalOff

\* DetectEntrypoint on every archive within the bounds
InitDetect == IdleServer /\ DetInit /\ RtOff /\ MergeOff /\ ReqOff /\ ErrOff /\ ExtOff

SpecDetect == InitDetect /\ [][CallDetectEntrypoint]_vars

\* build, list and extract on every list of files within the bounds
InitRoundTrip == IdleServer /\ DetOff /\ RtInit /\ MergeOff /\ ReqOff /\ ErrOff /\ ExtOff

\* MergeRequirements on every pair of texts within the bounds
InitMerge == IdleServer /\ DetOff /\ RtOff /\ MergeInit /\ ReqOff /\ ErrOff /\ ExtOff

SpecMerge == InitMerge /\ [][CallMergeRequirements]_vars

\* DetectRequirements on every source within the bounds
InitRequirements == IdleServer /\ DetOff /\ RtOff /\ MergeOff /\ ReqInit /\ ErrOff /\ ExtOff

SpecRequirements == InitRequirements /\ [][CallDetectRequirements]_vars

\* parseErrorFromStderr on every output within the bounds
InitParseError == IdleServer /\ DetOff /\ RtOff /\ MergeOff /\ ReqOff /\ ErrInit /\ ExtOff

SpecParseError == InitParseError /\ [][CallParseError]_vars

\* submissions with every entrypoint and tar within the bounds, from the request
\* to the start of the container, on either store
InitSubmission ==
    /\ LifeInit /\ ttl = 0 /\ TarOff /\ DefOff /\ StoreInit /\ EvalOff
    /\ DetOff /\ RtOff /\ MergeOff /\ ReqOff /\ ErrOff /\ EntInit /\ CmdOff /\ PollOff

SpecSubmission == InitSubmission /\ [][EntNext]_vars

\* buildCommand on every metadata within the bounds
InitCommand ==
    /\ IdleServer /\ DetOff /\ RtOff /\ MergeOff /\ ReqOff /\ ErrOff /\ EntOff /\ CmdInit
    /\ PollOff

SpecCommand == InitCommand /\ [][CallBuildCommand]_vars

\* one call of WaitForCompletion against a server that answers anything
InitPoll ==
    /\ IdleServer /\ DetOff /\ RtOff /\ MergeOff /\ ReqOff /\ ErrOff /\ EntOff /\ CmdOff
    /\ PollInit

SpecPoll == InitPoll /\ [][PollNext]_vars

SpecRoundTrip == InitRoundTrip /\ [][RtNext]_vars

\* every worker step but the runtime error on the wait channel, which the runtime
\* is not bound to deliver
WorkerProgress(j) ==
    \/ AsyncGet(j)
    \/ SetRunning(j)
    \/ SetStarted(j)
    \/ UpdateRunning(j)
    \/ \E ok \in BOOLEAN : EnsureImage(j, ok)
    \/ \E ok \in BOOLEAN : CreateContainer(j, ok)
    \/ \E ok \in BOOLEAN : CopyToContainer(j, ok)
    \/ CopyFailRemove(j)
    \/ \E ok \in BOOLEAN : StartContainer(j, ok)
    \/ WaitStatus(j)
    \/ WaitDone(j)
    \/ \E ok \in BOOLEAN : GetLogs(j, ok)
    \/ DeferRemove(j)
    \/ SetFinished(j)
    \/ SetTerminalStatus(j)
    \/ SetTerminalFields(j)
    \/ UpdateTerminal(j)

\* Fair scheduling of each worker, every runtime and store call returns, and the
\* deadline of a running Execute passes.  Nothing makes a script end.
FairSpec ==
    /\ Spec
    /\ \A j \in Jobs : WF_vars(WorkerProgress(j))
    /\ \A j \in Jobs : WF_vars(DeadlineExpire(j))

\* ------------------------------------------------------------------ claims
Rank(st) == IF st = StatusPending THEN 0 ELSE IF st = StatusRunning THEN 1 ELSE 2

Returned(j) == wpc[j] \in {"ret", "setStatus", "setFields", "updTerminal", "done"}

\* C1: killed is absorbing: once the stored status of a job is killed, no later
\* write changes it to another status.
C1_KilledAbsorbing ==
    [][\A j \in Jobs :
          (present[j] /\ rec[j].status = StatusKilled /\ present'[j])
              => rec'[j].status = StatusKilled]_vars

\* C2: once the stored status of a job is completed, failed or killed it never
\* changes again (no terminal-to-terminal transition, none back to pending or
\* running).
C2_TerminalIsFinal ==
    [][\A j \in Jobs :
          (present[j] /\ rec[j].status \in Terminal /\ present'[j])
              => rec'[j].status = rec[j].status]_vars

\* C3: when KillExecution goes on to mark a running job killed while the job's
\* container exists, that step has invoked the runtime kill on the container.
C3_KillReachesContainer ==
    [][\A k \in Killers :
          (/\ kpc[k] = "killContainer"
           /\ kpc'[k] = "setKilled"
           /\ container[ktarget[k]] \in {"created", "running"})
              => apiKills'[ktarget[k]] = apiKills[ktarget[k]] + 1]_vars

\* C4: every job whose record was created eventually has a terminal status in
\* the store.
C4_EventuallyTerminal ==
    \A j \in Jobs : present[j] ~> (present[j] /\ rec[j].status \in Terminal)

\* C4 witness: a job that never left its container ended failed by the deadline.
C4_Witness ==
    \E j \in Jobs :
        /\ present[j] /\ wpc[j] = "done" /\ ctx[j] = "deadline"
        /\ rec[j].status = StatusFailed /\ rec[j].error = "timeout"

\* C5: a record is created as pending; the stored status, and so what successive
\* reads return, only moves forward in the order pending, running, terminal; and
\* a pending record is never given a terminal status directly.
C5_LifecycleOrder ==
    [][\A j \in Jobs :
          /\ (~present[j] /\ present'[j] /\ wpc[j] = "idle")
                => rec'[j].status = StatusPending
          /\ (present[j] /\ present'[j])
                => Rank(rec'[j].status) >= Rank(rec[j].status)
          /\ (present[j] /\ present'[j] /\ rec[j].status = StatusPending)
                => rec'[j].status \in {StatusPending, StatusRunning}
          /\ (lastRead[j] # "none")
                => Rank(lastRead'[j]) >= Rank(lastRead[j])]_vars

\* C5 witness: an async job was read as running, then killed and read again.
C5_Witness ==
    \E j \in Jobs :
        /\ mode[j] = "async" /\ wpc[j] = "done"
        /\ lastRead[j] = StatusKilled /\ present[j]

\* C6: whenever Execute has returned, a container it created has been removed.
C6_ContainerAlwaysRemoved ==
    \A j \in Jobs : (Returned(j) /\ container[j] # "none") => container[j] = "removed"

\* C7: when the deadline expired and Execute left through its timeout branch, the
\* engine issued a kill and the job's record ends failed with the timeout error.
C7_TimeoutEndsFailed ==
    \A j \in Jobs :
        (ctx[j] = "deadline" /\ eres[j] = "timeout")
            => /\ engineKills[j] > 0
               /\ (wpc[j] = "done" /\ present[j])
                     => (rec[j].status = StatusFailed /\ rec[j].error = "timeout")

\* C8: cleanup deletes a record only if its status is terminal and it was created
\* before now minus the TTL; and an in-memory pass leaves no such record behind.
C8_CleanupOnlyOldTerminal ==
    /\ [][\A j \in Jobs :
             (present[j] /\ ~present'[j])
                 => (rec[j].status \in Terminal /\ rec[j].createdAt < now - ttl)]_vars
    /\ [](backend = "memory" =>
             \A j \in Jobs :
                 (present[j] /\ rec[j].status \in Terminal /\ rec[j].createdAt < now - ttl)
                     => ~MemoryCleanupKeeps(j))

\* C8 witness: cleanup has deleted an old terminal record.
C8_Witness ==
    \E j \in Jobs :
        /\ ~present[j] /\ wpc[j] = "done"
        /\ rec[j].status \in Terminal /\ rec[j].createdAt < now - ttl

\* the paths an entry may bring into being: its target and the directories above it
Footprint(e) ==
    LET t == TargetPath(e.name)
    IN {SubSeq(t, 1, n) : n \in (Len(DestDir) + 1)..Len(t)}

\* a path that contains ".." or is absolute
UnsafeName(name) ==
    \/ \E i \in 1..(Len(name) - 1) : SubSeq(name, i, i + 1) = <<".", ".">>
    \/ (name # <<>> /\ Head(name) = "/")

UnsafeAt == {i \in 1..Len(archive) : UnsafeName(archive[i].name)}

\* C9: for an archive with an entry whose path contains ".." or is absolute,
\* ExtractToDir returns an error and has written no file or directory at all.
C9_UnsafeWritesNothing ==
    (tres \notin {"off", "running"} /\ UnsafeAt # {})
        => (tres # "ok" /\ written = {})

\* What ExtractToDir does keep for such an archive: it returns an error, and
\* whatever it has written comes from entries that precede the first unsafe entry.
UnsafeStopsExtraction ==
    (tres \notin {"off", "running"} /\ UnsafeAt # {})
        => /\ tres # "ok"
           /\ \A w \in written :
                 \E i \in 1..Len(archive) :
                     /\ \A u \in UnsafeAt : i < u
                     /\ w.path \in Footprint(archive[i])

\* C9 case: ExtractToDir rejected an unsafe entry after writing a safe one.
C9_Witness ==
    /\ tres = "unsafe"
    /\ UnsafeAt # {}
    /\ written # {}

\* C10: a job submitted without config.network_disabled has its container
\* created with network mode none.
C10_NetworkOffByDefault ==
    (dpc = "created" /\ (~djson.hasConfig \/ djson.net = "omitted"))
        => dnet = "none"

\* the worker's Execution after a step
WExecNext(j) == IF backend = "memory" THEN rec'[j] ELSE wexec'[j]

\* C11: when Execute returned an output the worker assigns status completed and
\* the script's exit code, whatever the code is; when Execute returned an error it
\* assigns status failed and a non-empty error, and its Execution takes no exit
\* code or output from the run.
C11_OutputCompletedErrorFailed ==
    [][\A j \in Jobs :
          /\ (wpc[j] = "setStatus" /\ wpc'[j] = "setFields")
                => WExecNext(j).status =
                       (IF eres[j] = "ok" THEN StatusCompleted ELSE StatusFailed)
          /\ (wpc[j] = "setFields" /\ wpc'[j] = "updTerminal")
                => IF eres[j] = "ok"
                   THEN /\ WExecNext(j).hasOutput
                        /\ WExecNext(j).exitCode = exitCode[j]
                        /\ WExecNext(j).error = ""
                   ELSE /\ WExecNext(j).error # ""
                        /\ ~WExecNext(j).hasOutput
                        /\ WExecNext(j).exitCode = 0
          /\ (wpc[j] = "updTerminal" /\ wpc'[j] = "done" /\ backend = "consul")
                => /\ rec'[j].status =
                          (IF eres[j] = "ok" THEN StatusCompleted ELSE StatusFailed)
                   /\ rec'[j].hasOutput = (eres[j] = "ok")]_vars

\* C11 witness: a script that ended with a non-zero exit code is stored completed
\* with that code, and an engine error is stored failed without output.
C11_Witness ==
    \E j \in Jobs :
        /\ wpc[j] = "done" /\ present[j] /\ eres[j] = "ok"
        /\ rec[j].status = StatusCompleted /\ rec[j].exitCode = 1

\* C12: a KillExecution that observes a status other than running answers 200
\* with that status, and one for an unknown id answers 404; in both cases it
\* makes no runtime call and writes nothing to the store.
C12_KillNotRunningChangesNothing ==
    [][\A k \in Killers, j \in Jobs :
          (kpc[k] = "idle" /\ KillGet(k, j)
               /\ (~present[j] \/ rec[j].status # StatusRunning))
              => /\ kresp'[k] = (IF present[j] THEN rec[j].status ELSE "404")
                 /\ kpc'[k] = "idle"
                 /\ UNCHANGED <<present, rec, apiKills, engineKills, container>>]_vars

\* C12 witness: a kill request for a completed job was answered with completed
\* and went no further.
C12_Witness ==
    \E k \in Killers :
        /\ kpc[k] = "idle"
        /\ kresp[k] = StatusCompleted
        /\ present[ktarget[k]] /\ rec[ktarget[k]].status = StatusCompleted
        /\ apiKills[ktarget[k]] = 0

\* C13: once a kill request for a job was answered killed, a further kill request
\* for the same job that finds its record is answered killed again, leaves the
\* stored status killed and makes no call to the container runtime.
C13_RepeatedKillStaysKilled ==
    [][\A k \in Killers, j \in Jobs :
          (/\ kpc[k] = "idle" /\ kresp[k] = StatusKilled /\ ktarget[k] = j
           /\ present[j] /\ KillGet(k, j))
              => /\ kresp'[k] = StatusKilled
                 /\ kpc'[k] = "idle"
                 /\ rec'[j].status = StatusKilled
                 /\ UNCHANGED <<apiKills, container>>]_vars

\* C14: Update of an id the store does not hold fails with not found and does
\* not create the record, in the in-memory store and in the KV store.
C14_UpdateMissingFails ==
    [][\A c \in Clients, id \in StoreIds :
          ((MemoryUpdate(c, id) \/ ConsulUpdate(c, id)) /\ kv[id] = 0)
              => (sc'[c].res = "notfound" /\ kv'[id] = 0)]_vars

\* In the job lifecycle: a record that is gone comes back only through Create,
\* never through a worker's or a kill request's Update.
UpdateNeverRevives ==
    [][\A j \in Jobs : (~present[j] /\ present'[j]) => wpc[j] = "idle"]_vars

\* C15: a Create for an id that is present when Create writes fails with already
\* exists and leaves the stored record as it is, so of two concurrent Creates
\* for one id at most one succeeds.
C15_CreateChecksAndSets ==
    [][\A c \in Clients, id \in StoreIds :
          (/\ MemoryCreate(c, id) \/ (ConsulCreatePut(c) /\ sc[c].id = id)
           /\ kv[id] # 0)
              => (sc'[c].res = "exists" /\ kv'[id] = kv[id])]_vars

\* C16: when the store update that records the running or the terminal state of
\* a job returns an error, the handler does not carry on as if it had succeeded:
\* it does not start the execution, and a sync or eval request is not answered
\* 200 with a result the store does not hold.
C16_UpdateErrorSurfaces ==
    [][\A j \in Jobs :
          /\ (wpc[j] = "updRunning" /\ UpdateFails(j))
                => wpc'[j] # "ensureImage"
          /\ (wpc[j] = "updTerminal" /\ UpdateFails(j))
                => SyncResponse(j)' # "200"]_vars

\* a field after defaulting: the default exactly when the supplied value is the
\* zero value
Defaulted(supplied, zero, default) == IF supplied = zero THEN default ELSE supplied

\* C17: applyDefaults gives timeout, memory, disk and cpu the server default
\* exactly when the supplied value is zero or config is absent, and the image
\* exactly when it is empty; it keeps explicit values and network_disabled as
\* they were, and applying it again changes nothing.
C17_DefaultsFillZeroOnly ==
    dpc \in {"defaulted", "created"} =>
        LET supplied == UnmarshalMetadata(djson)
        IN /\ dmeta.timeout = Defaulted(supplied.timeout, 0, DefaultTimeout)
           /\ dmeta.memory = Defaulted(supplied.memory, 0, DefaultMemoryMB)
           /\ dmeta.disk = Defaulted(supplied.disk, 0, DefaultDiskMB)
           /\ dmeta.cpu = Defaulted(supplied.cpu, 0, DefaultCPUShares)
           /\ dmeta.image = Defaulted(supplied.image, "", DefaultImage)
           /\ dmeta.networkDisabled = supplied.networkDisabled
           /\ (djson.net = "true") = dmeta.networkDisabled
           /\ applyDefaults(dmeta) = dmeta

\* C17 witness: a config with a zero timeout, an explicit memory limit and
\* network_disabled false was defaulted.
C17_Witness ==
    /\ dpc = "defaulted"
    /\ djson.hasConfig /\ djson.timeout = 0 /\ djson.memory = 1 /\ djson.net = "false"
    /\ dmeta.timeout = DefaultTimeout /\ dmeta.memory = 1 /\ ~dmeta.networkDisabled

\* a cleaned path that is a strict descendant of destDir
StrictlyBelowDest(p) ==
    /\ Len(p) > Len(DestDir)
    /\ \A i \in 1..Len(DestDir) : p[i] = DestDir[i]

\* C18: when ExtractToDir succeeds, every file and directory it created lies
\* strictly inside destDir and comes from an entry that is a regular file or a
\* directory: entries of any other type create nothing.
C18_ExtractedInsideDest ==
    tres = "ok" =>
        \A w \in written :
            /\ StrictlyBelowDest(w.path)
            /\ \E i \in 1..Len(archive) :
                   /\ archive[i].typ \in {"reg", "dir"}
                   /\ w.path \in Footprint(archive[i])

\* C18 witness: an archive with a link entry and a regular file was extracted,
\* and only the file exists.
C18_Witness ==
    /\ tres = "ok"
    /\ \E i \in 1..Len(archive) : archive[i].typ = "sym"
    /\ \E w \in written : w.kind = "file"
    /\ Cardinality(written) = 1

CodeGiven == evalReq.code # 0
FilesGiven == Len(evalReq.files) > 0
VersionKnown == evalReq.version = "" \/ evalReq.version \in pythonVersionImages

\* C19: ExecuteEval answers 400 unless exactly one of code and files is present
\* and non-empty: with neither, and with both.
C19_ExactlyOneOfCodeAndFiles ==
    (evalPc = "done" /\ CodeGiven = FilesGiven) => evalResp = "400"

\* C19, with both allowed: a well-formed request with a known version is
\* answered 400 exactly when it has neither code nor files; when it has both it
\* is taken, and files is what is run.
C19_AtLeastOneOfCodeAndFiles ==
    (evalPc = "done" /\ evalReq.valid /\ VersionKnown)
        => /\ (evalResp = "400") = (~CodeGiven /\ ~FilesGiven)
           /\ (CodeGiven /\ FilesGiven) => evalFiles = evalReq.files

\* C19 witness: a request with both code and files was accepted.
C19_Witness ==
    /\ evalPc = "done" /\ evalResp = "accepted"
    /\ CodeGiven /\ FilesGiven

\* the bytes the claim counts: code and every file
TotalContent == evalReq.code + SumLens(evalReq.files)

\* the bytes of the files that are run: those of files when there are any, else
\* those of code
RunContent == IF FilesGiven THEN SumLens(evalReq.files) ELSE evalReq.code

\* C20: a request that reaches the size validation passes it exactly when the
\* length of code plus the lengths of all files contents is at most 102400.
C20_SizeOfCodePlusFiles ==
    (evalPc = "done" /\ evalResp \in {"413", "accepted"})
        => (evalResp = "accepted") = (TotalContent <= 102400)

\* C20, counting what is run: such a request passes exactly when the contents of
\* the files that are run (files, or code when there are no files) total at most
\* 102400 bytes.
C20_SizeOfRunContent ==
    (evalPc = "done" /\ evalResp \in {"413", "accepted"})
        => (evalResp = "accepted") = (RunContent <= 102400)

\* C20 witness: a request of exactly 102400 bytes in two files was accepted.
C20_Witness ==
    /\ evalPc = "done" /\ evalResp = "accepted"
    /\ Len(evalReq.files) = 2 /\ RunContent = 102400

\* C21: an /eval request answered 400 or 413 has created no record and has not
\* reached the executor; and on every submission path a failed storage.Create is
\* answered 500, leaves no record under the id and the executor is not invoked.
C21_RejectedLeavesNothing ==
    /\ evalResp \in {"400", "413"}
          => \A j \in Jobs : ~present[j] /\ createRes[j] = "none" /\ wpc[j] = "idle"
    /\ \A j \in Jobs :
          createRes[j] = "err"
              => /\ wpc[j] = "createFailed"
                 /\ ~present[j]
                 /\ container[j] = "none" /\ eres[j] = "none"

\* C21 witness: an /eval request that passed validation met a failing Create.
C21_Witness ==
    /\ evalResp = "accepted" /\ SumLens(evalFiles) = maxCodeSize
    /\ mode[1] = "eval" /\ createRes[1] = "err" /\ wpc[1] = "createFailed"

\* C22: a record that was created stays in the store until Cleanup deletes it.
\* Only a cleanup pass removes a record, and only one that is terminal and older
\* than the TTL; so while a created job is pending or running, or terminal and
\* not older than the TTL, a GET for its id finds the record.
C22_RecordsPersistUntilCleanup ==
    /\ [][\A j \in Jobs :
             (present[j] /\ ~present'[j])
                 => /\ UNCHANGED <<wpc, kpc, lastRead, rec>>
                    /\ backend = "memory" \/ cpc = "loop"
                    /\ rec[j].status \notin {StatusPending, StatusRunning}
                    /\ now - rec[j].createdAt > ttl]_vars
    /\ [](\A j \in Jobs :
             (createRes[j] = "ok" /\ ~present[j])
                 => (rec[j].status \in Terminal /\ now - rec[j].createdAt > ttl))

\* C22 witness: the record of an async job that ended is read by a GET when its
\* age has reached the TTL, cleanup passes notwithstanding.
C22_Witness ==
    \E j \in Jobs :
        /\ mode[j] = "async" /\ wpc[j] = "done" /\ present[j]
        /\ ttl = 1 /\ now - rec[j].createdAt = ttl
        /\ rec[j].status = StatusCompleted /\ lastRead[j] = StatusCompleted

\* the headers DetectEntrypoint may choose: regular files whose name ends in .py
PyAt == {i \in 1..Len(tarData) :
            tarData[i].typ = "reg" /\ HasSuffix(tarData[i].name, Str_py)}
PyNamed(base) == {i \in PyAt : Base(tarData[i].name) = base}
First(idx) == tarData[CHOOSE i \in idx : \A o \in idx : i <= o].name

\* C23: DetectEntrypoint returns the first regular .py entry whose base name is
\* main.py if there is one; otherwise the first whose base name is __main__.py;
\* otherwise the first regular .py entry; otherwise an error.  It never returns
\* an entry that is not a regular file or does not end in .py.
C23_EntrypointPriority ==
    entrypoint.done =>
        /\ entrypoint.err = (PyAt = {})
        /\ PyAt # {} =>
              /\ \E i \in PyAt : tarData[i].name = entrypoint.name
              /\ entrypoint.name =
                    IF PyNamed(Str_main_py) # {} THEN First(PyNamed(Str_main_py))
                    ELSE IF PyNamed(Str_dunder_main_py) # {}
                         THEN First(PyNamed(Str_dunder_main_py))
                         ELSE First(PyAt)

\* C23 witness: main.py in a subdirectory, last of three, is chosen over an
\* earlier __main__.py and a first plain .py file.
C23_Witness ==
    /\ entrypoint.done /\ Len(tarData) = 3
    /\ tarData[1] = [name |-> <<"a">> \o Str_py, typ |-> "reg"]
    /\ tarData[2] = [name |-> Str_dunder_main_py, typ |-> "reg"]
    /\ tarData[3] = [name |-> <<"d", "/">> \o Str_main_py, typ |-> "reg"]
    /\ entrypoint.name = <<"d", "/">> \o Str_main_py

\* the round trip has ended: the build failed or ExtractToDir returned
RtDone == rtPc = "buildErr" \/ (rtPc = "extract" /\ tres # "running")

RtName(i) == codeFiles[i].name
RtTarget(i) == TargetPath(RtName(i))
SafeName(name) == validatePath(name) /\ InsideDest(TargetPath(name))
DistinctSafeNames ==
    /\ \A i \in 1..Len(codeFiles) : SafeName(RtName(i))
    /\ \A i, j \in 1..Len(codeFiles) : i # j => RtName(i) # RtName(j)

\* the listing gives the input names in order, and the extraction succeeded and
\* left exactly the input files with their contents
RoundTripExact ==
    /\ rtPc = "extract" /\ tres = "ok"
    /\ listed = [i \in 1..Len(codeFiles) |-> RtName(i)]
    /\ {w \in written : w.kind = "file"} =
          {[path |-> RtTarget(i), kind |-> "file", content |-> codeFiles[i].content] :
              i \in 1..Len(codeFiles)}

\* no name ends in a slash, and no cleaned name equals or lies above another
NonOverlappingFileNames ==
    /\ \A i \in 1..Len(codeFiles) : ~HasSuffix(RtName(i), <<"/">>)
    /\ \A i, j \in 1..Len(codeFiles) :
          i # j => \/ Len(RtTarget(i)) > Len(RtTarget(j))
                   \/ SubSeq(RtTarget(j), 1, Len(RtTarget(i))) # RtTarget(i)

\* C24 as stated: for every list of files with distinct, safe relative names,
\* building the tar and then listing and extracting it yields exactly the input
\* names, in input order, with exactly the input contents, and no other file.
C24_RoundTripDistinctSafe ==
    (RtDone /\ DistinctSafeNames) => RoundTripExact

\* C24 amended: the same for distinct, safe relative names of which none ends in
\* a slash and none, once cleaned, equals another or names a directory above
\* another; each file is extracted at its cleaned name.
C24_RoundTripNonOverlapping ==
    (RtDone /\ DistinctSafeNames /\ NonOverlappingFileNames) => RoundTripExact

\* C24 witness: two files, one of them in a subdirectory, came back with their
\* contents.
C24_Witness ==
    /\ RtDone /\ tres = "ok"
    /\ codeFiles = << [name |-> <<"a", "/", "b">>, content |-> "p"],
                      [name |-> <<"b">>, content |-> ""] >>
    /\ Cardinality({w \in written : w.kind = "file"}) = 2

\* the lines of a text; an empty text has none
LinesOf(text) == IF text = <<>> THEN <<>> ELSE SplitLines(text, 1, <<>>)

\* the lowercased text before the first of = > < ! [ ; without surrounding blanks
BareName(line) ==
    LET cut == IF \E i \in 1..Len(line) : IsSpecifier(line[i])
               THEN CHOOSE i \in 1..Len(line) :
                        IsSpecifier(line[i]) /\ \A k \in 1..(i - 1) : ~IsSpecifier(line[k])
               ELSE Len(line) + 1
    IN ToLower(TrimSpace(SubSeq(line, 1, cut - 1)))

\* the bare names of the non-blank, non-comment lines of the user text
UserNames ==
    {BareName(l) : l \in {LinesOf(userProvided)[i] : i \in
        {k \in 1..Len(LinesOf(userProvided)) :
            LET t == TrimSpace(LinesOf(userProvided)[k]) IN t # <<>> /\ t[1] # "#"}}}

\* the detected lines to append, each after a line break, from line i on
RECURSIVE Appended(_)
Appended(i) ==
    IF i > Len(LinesOf(detected)) THEN <<>>
    ELSE (IF BareName(LinesOf(detected)[i]) \in UserNames
          THEN <<>>
          ELSE <<"\n">> \o LinesOf(detected)[i]) \o Appended(i + 1)

\* C25: MergeRequirements(detected, user) is the user text verbatim followed, in
\* their given order, by exactly the detected lines whose lowercased bare name is
\* the lowercased bare name of no non-blank, non-comment user line; and
\* MergeRequirements(detected, "") is detected.
C25_UserFirstThenUnmatchedDetected ==
    merged.done =>
        merged.text = IF userProvided = <<>> THEN detected
                      ELSE userProvided \o Appended(1)

\* C25 witness: the user pinned N, so of the detected n and p only p was appended.
C25_Witness ==
    /\ merged.done
    /\ detected = <<"n", "\n", "p">>
    /\ userProvided = <<"N", "=">>
    /\ merged.text = <<"N", "=", "\n", "p">>

\* the source imports a module that is valid and not of the standard library
ThirdPartyImport ==
    \E i \in 1..Len(pyCode) :
        /\ pyCode[i].live /\ isValidModuleName(pyCode[i].module)
        /\ extractTopLevel(pyCode[i].module) \notin stdlibModules

\* C26: the lines DetectRequirements returns are in lexicographic order without
\* a duplicate, none is a name of the stdlib set, and the result is the empty
\* string when the source has no third-party import.
C26_SortedUniqueNoStdlib ==
    requirements.done =>
        LET lines == LinesOf(requirements.text)
        IN /\ \A i, j \in 1..Len(lines) : i < j => StrLess(lines[i], lines[j])
           /\ \A i \in 1..Len(lines) : lines[i] \notin stdlibModules
           /\ ~ThirdPartyImport => requirements.text = <<>>
           /\ ThirdPartyImport => requirements.text # <<>>

\* C26 witness: numpy imported under two names next to PIL gives Pillow, then
\* numpy once.
C26_Witness ==
    /\ requirements.done
    /\ pyCode = << [form |-> "import", module |-> Str_np, live |-> TRUE],
                 [form |-> "from", module |-> Str_PIL, live |-> TRUE] >>
    /\ requirements.text = Str_Pillow \o <<"\n">> \o Str_numpy

\* the lines of the output, the lines bearing an error type and those bearing a
\* line number that is an int
StderrLinesOf == SplitLines(stderr, 1, <<>>)
TypeLines == {i \in 1..Len(StderrLinesOf) : ErrorTypeOf(TrimSpace(StderrLinesOf[i])) # <<>>}
NumberLines ==
    {i \in 1..Len(StderrLinesOf) :
        /\ LineDigitsOf(StderrLinesOf[i]) # <<>>
        /\ ~AtoiFails(LineDigitsOf(StderrLinesOf[i]))}
LastTypeLine == CHOOSE i \in TypeLines : \A o \in TypeLines : o <= i
FirstNumberLine == CHOOSE i \in NumberLines : \A o \in NumberLines : i <= o

\* C27: parseErrorFromStderr returns as error type the identifier of the last line
\* of the output that starts, leading blanks aside, with a capitalized identifier
\* ending in Error and a colon, and as error line the number of the first line that
\* matches File "...", line N; each is found whatever the other finds, and an output
\* with no such line gives the empty string and 0.
C27_LastTypeFirstLine ==
    parsed.done =>
        /\ parsed.errorType =
              IF TypeLines = {} THEN <<>>
              ELSE ErrorTypeOf(TrimSpace(StderrLinesOf[LastTypeLine]))
        /\ parsed.errorLine =
              IF NumberLines = {} THEN 0
              ELSE AtoiValue(LineDigitsOf(StderrLinesOf[FirstNumberLine]), 0)

\* a nested traceback with two line numbers and two error types: the first number
\* and the last type are returned
C27_Witness ==
    /\ parsed.done
    /\ stderr = JoinLines(<<Line_IndentedFile, Line_TypeAndFile, Line_NameError>>)
    /\ parsed.errorType = <<"N", "a", "m", "e", "E", "r", "r", "o", "r">>
    /\ parsed.errorLine = 3

\* a record caught between two of a handler's assignments
PartlyUpdated(e) ==
    \/ e.status = StatusCompleted /\ ~e.hasOutput
    \/ e.status = StatusRunning /\ e.finished
    \/ e.status = StatusRunning /\ ~e.started

\* C28: with the in-memory store, the record a Get returns is never partly updated:
\* it is not completed without its output, exit code and duration, not running
\* with finished_at set, and not running without started_at.
C28_GetNeverSeesPartialRecord ==
    backend = "memory" => \A j \in Jobs : present[j] => ~PartlyUpdated(rec[j])

\* C29: a stored record that is completed, failed or killed never coexists with a
\* running container of the same job.
C29_TerminalMeansContainerStopped ==
    \A j \in Jobs :
        present[j] /\ rec[j].status \in Terminal => container[j] # "running"

\* C30: every stored record that is completed, failed or killed has finished_at,
\* every stored record that is running or terminal has started_at, and a stored
\* record that is pending or running has no finished_at.
C30_TimestampsFollowStatus ==
    \A j \in Jobs :
        present[j] =>
            /\ rec[j].status \in Terminal => rec[j].finished
            /\ rec[j].status \in Terminal \cup {StatusRunning} => rec[j].started
            /\ rec[j].status \in {StatusPending, StatusRunning} => ~rec[j].finished

\* Execution.Metadata of the record a submission handler builds: the pointer the
\* handler also hands to Execute as req.Metadata, hence the object applyDefaults
\* fills in
RecordMetadata == dmeta

\* C31: once Execute has filled in the defaults, the metadata of the job's record
\* is still exactly what the submitter supplied.
C31_RecordMetadataAsSupplied ==
    dpc \in {"defaulted", "created"} => RecordMetadata = UnmarshalMetadata(djson)

\* C32: once the exit status of the container has been read, Execute returns the
\* output with that exit code whenever the runtime delivers the logs, whether or
\* not the deadline has expired in the meantime.
C32_LogsSurviveDeadline ==
    \A j \in Jobs :
        wpc[j] = "logs" =>
            ENABLED (GetLogs(j, TRUE) /\ eres'[j] = "ok" /\ exitCode'[j] = exitCode[j])

\* the deadline has expired and Execute has the output all the same
C32_Witness ==
    \E j \in Jobs : wpc[j] = "deferRemove" /\ eres[j] = "ok" /\ ctx[j] = "deadline"

\* C33: ExecuteAsync can answer 202 wherever the worker stands, and the context
\* of an async job is never cancelled: neither the answer nor the end of the
\* request changes the worker's position, its context, the container or the
\* record.
C33_AsyncDecoupledFromRequest ==
    /\ [](\A j \in Jobs :
            /\ mode[j] = "async" => ctx[j] # "canceled"
            /\ mode[j] = "async" /\ createRes[j] = "ok" /\ asyncResp[j] = "none"
                   => ENABLED AsyncRespond(j))
    /\ [][\A j \in Jobs :
            asyncResp'[j] # asyncResp[j] =>
                UNCHANGED <<wpc, ctx, container, eres, present, rec, wexec>>]_vars

\* the request has been answered and the job has run to completion with its
\* output stored
C33_Witness ==
    \E j \in Jobs :
        /\ mode[j] = "async"
        /\ asyncResp[j] = "202"
        /\ wpc[j] = "done"
        /\ present[j]
        /\ rec[j].status = StatusCompleted
        /\ rec[j].hasOutput

\* the entrypoint of the job's metadata names a regular file of its tar
EntrypointInTar ==
    \E i \in 1..Len(subJob.tar) :
        subJob.tar[i].typ = "reg" /\ subJob.tar[i].name = subJob.entrypoint

\* C34: a job whose record is running, or for which a container exists, has an
\* entrypoint that names a regular file of its submitted tar.
C34_RunningHasEntrypointInTar ==
    \A j \in Jobs :
        (present[j] /\ rec[j].status = StatusRunning) \/ container[j] # "none"
            => EntrypointInTar

\* C35: Execute returns the timeout error only when the deadline of the job has
\* expired, never for a cancellation by the caller.
C35_TimeoutOnlyOnDeadline ==
    \A j \in Jobs : eres[j] = "timeout" => ctx[j] = "deadline"

\* C36: after applyDefaults, timeout_seconds, memory_mb, disk_mb and cpu_shares
\* are all strictly positive, whatever the metadata supplied.
C36_LimitsPositiveAfterDefaults ==
    dpc \in {"defaulted", "created"} =>
        dmeta.timeout > 0 /\ dmeta.memory > 0 /\ dmeta.disk > 0 /\ dmeta.cpu > 0

\* the parts of a command line, cut at each " && "
RECURSIVE PartsOf(_, _, _)
PartsOf(text, i, cur) ==
    LET seps == {k \in i..Len(text) : text[k] = Lit_Sep}
        next == CHOOSE k \in seps : \A o \in seps : k <= o
    IN IF seps = {} THEN <<cur \o SubSeq(text, i, Len(text))>>
       ELSE <<cur \o SubSeq(text, i, next - 1)>> \o PartsOf(text, next + 1, <<>>)

\* the argument list as it stands behind the script path
RECURSIVE QuotedArgs(_)
QuotedArgs(args) ==
    IF args = <<>> THEN <<>>
    ELSE QuotedArgs(SubSeq(args, 1, Len(args) - 1)) \o <<" ">> \o Quote(args[Len(args)])

C38_WaitReturnsOnlyTerminal ==
    /\ [](/\ waiter.ret = "result" =>
                waiter.status \in Terminal /\ waiter.status = waiter.last
          /\ waiter.polls <= waiter.ticks
          /\ waiter.pc = "returned" /\ waitCtx = "done" => waiter.ret = "error"
          /\ waiter.last = "err" => waiter.pc = "returned" /\ waiter.ret = "error"
          /\ waiter.ret = "error" => waitCtx = "done" \/ waiter.last = "err")
    /\ [][/\ waiter'.polls # waiter.polls /\ waiter'.last \in {StatusPending, StatusRunning}
               => waiter'.pc = "select" /\ waiter'.ret = "none"
          /\ waiter'.polls # waiter.polls
               => waiter.tickReady /\ waiter'.polls = waiter.polls + 1]_vars

\* two polls found the job pending and running, the third found it completed
C38_Witness ==
    /\ waiter.pc = "returned"
    /\ waiter.polls = 3
    /\ waiter.ret = "result"
    /\ waiter.status = StatusCompleted

====
